---- MODULE Spec2Model ----
(***************************************************************************)
(* A model of the YAML field codecs of go-gha-models: the `uses` scalar    *)
(* shorthand (step.go), the `permissions`, `concurrency` and `environment` *)
(* codecs and the matrix expansion (workflow.go), and the two entry points *)
(* ParseWorkflow and ParseManifest.  Every codec is a pure function of a   *)
(* YAML node and the receiver it decodes into; each specification draws    *)
(* the node (or the value to encode) in Init and applies the codec in one  *)
(* action, and a second action decodes what was encoded.                   *)
(*                                                                         *)
(* Go strings are modelled as sequences of one-character strings where     *)
(* they are indexed or sliced, so that strings.LastIndex is computed and   *)
(* not assumed.                                                            *)
(***************************************************************************)
EXTENDS Integers, Sequences, FiniteSets, TLC

VARIABLES pc, n, u, m, m2, p, out, err, err2,
          concurrency, environment, workflow, manifest, back, needs

vars ==
    <<pc, n, u, m, m2, p, out, err, err2,
      concurrency, environment, workflow, manifest, back, needs>>

\* The value of a variable a specification does not use.
Null == "null"

\* The nil error.
Nil == "nil"

-----------------------------------------------------------------------------
(* Bounds of the model. *)

\* Longest `uses` scalar that is drawn.
MaxUsesLen == 4

\* Longest trailing line comment that is drawn.
MaxCommentLen == 2

\* Longest value list of a matrix axis that is drawn.
MaxAxisLen == 2

\* Most include entries and most exclude entries of a matrix that are drawn.
MaxInclude == 2
MaxExclude == 1

\* Longest Name and longest Ref of a Uses value that is encoded.
MaxNameLen == 2

\* Longest `needs` sequence that is drawn.
MaxNeeds == 3

\* Most keys of a `permissions` mapping that are drawn, and most fields of a
\* Permissions value to encode that differ from the others.
MaxPermissions == 2

-----------------------------------------------------------------------------
(* Strings. *)

\* All sequences over S of length at most k.
SeqsUpTo(S, k) == UNION {[1..i -> S] : i \in 0..k}

\* s[lo:hi] of Go: the elements at the 0-based indices lo..hi-1.
Slice(s, lo, hi) == [i \in 1..(hi - lo) |-> s[lo + i]]

\* strings.Index(s, c) for a one-character c: 0-based, -1 when absent.
Index(s, c) ==
    IF \E i \in 1..Len(s) : s[i] = c
    THEN (CHOOSE i \in 1..Len(s) : s[i] = c /\ \A j \in 1..(i - 1) : s[j] # c) - 1
    ELSE -1

\* strings.LastIndex(s, c) for a one-character c: 0-based, -1 when absent.
LastIndex(s, c) ==
    IF \E i \in 1..Len(s) : s[i] = c
    THEN (CHOOSE i \in 1..Len(s) : s[i] = c /\ \A j \in (i + 1)..Len(s) : s[j] # c) - 1
    ELSE -1

\* strings.TrimLeft(s, cutset): s without its leading characters of cutset.
RECURSIVE TrimLeft(_, _)
TrimLeft(s, cutset) ==
    IF s # <<>> /\ Head(s) \in cutset THEN TrimLeft(Tail(s), cutset) ELSE s

-----------------------------------------------------------------------------
(* yaml.Node kinds. *)

ScalarNode == "ScalarNode"
SequenceNode == "SequenceNode"
MappingNode == "MappingNode"

-----------------------------------------------------------------------------
(* Uses (step.go). *)

\* The zero value of the Uses struct.
Uses == [Name |-> <<>>, Ref |-> <<>>, Annotation |-> <<>>]

UsesChars == {"a", "/", "@"}
CommentChars == {"#", " ", "v"}

\* The nodes a `uses:` value is decoded from.
UsesNodes ==
    [Kind : {ScalarNode}, Value : SeqsUpTo(UsesChars, MaxUsesLen),
     LineComment : SeqsUpTo(CommentChars, MaxCommentLen)]
    \cup [Kind : {SequenceNode, MappingNode}, Value : {<<>>}, LineComment : {<<>>}]

\* Variant of the split that leaves out the i == 0 test.
UsesInvalidNoLeading(value, i) == i = Len(value) - 1

\* The rejection test on the index of the separator.
UsesInvalid(value, i) == i = 0 \/ i = Len(value) - 1

\* Variant of the split on the first '@' instead of the last one.
UsesSeparatorFirst(value) == Index(value, "@")

\* The index of the separator of a `uses` scalar.
UsesSeparator(value) == LastIndex(value, "@")

\* (u *Uses) UnmarshalYAML(n): the receiver after the call and the error.
UsesUnmarshalYAML(recv, node) ==
    IF node.Kind # ScalarNode
    THEN [u |-> recv, err |-> "cannot unmarshal into a gha.Uses struct"]
    ELSE IF node.Value = <<>>
    THEN [u |-> recv, err |-> Nil]
    ELSE LET i == UsesSeparator(node.Value)
         IN  IF UsesInvalid(node.Value, i)
             THEN [u |-> recv, err |-> "invalid uses value"]
             ELSE [u |-> [Name |-> IF i > 0 THEN Slice(node.Value, 0, i)
                                           ELSE node.Value,
                          Ref |-> IF i > 0
                                  THEN Slice(node.Value, i + 1, Len(node.Value))
                                  ELSE recv.Ref,
                          Annotation |-> TrimLeft(node.LineComment, {"#", " "})],
                   err |-> Nil]

\* unicode.IsPrint on the characters an annotation is drawn from: the bell
\* character is a control character.
IsPrint(r) == r # "BEL"

\* strings.Map of MarshalYAML: the annotation without what is not printable.
RECURSIVE UsesPrintable(_)
UsesPrintable(s) ==
    IF s = <<>>
    THEN <<>>
    ELSE (IF IsPrint(Head(s)) THEN <<Head(s)>> ELSE <<>>) \o UsesPrintable(Tail(s))

\* Variant of the name test that wants the ref empty too.
UsesMissingNameEmptyRef(recv) == recv.Name = <<>> /\ recv.Ref = <<>>

\* The test of MarshalYAML for a ref without a name.
UsesMissingName(recv) == recv.Name = <<>> /\ recv.Ref # <<>>

\* Variant of the emitted value that always writes the separator and the ref.
UsesValueAlwaysRef(recv) == recv.Name \o <<"@">> \o recv.Ref

\* The value of the emitted scalar: the name, then '@' and the ref when
\* there is one.
UsesValue(recv) ==
    IF recv.Ref # <<>> THEN recv.Name \o <<"@">> \o recv.Ref ELSE recv.Name

\* Variant of MarshalYAML that also rejects a name without a ref and writes
\* the annotation into the value.
UsesMarshalYAMLRequiresRef(recv) ==
    IF recv.Name = <<>> /\ recv.Ref = <<>>
    THEN [n |-> [Kind |-> ScalarNode, Value |-> <<>>, LineComment |-> <<>>],
          err |-> Nil]
    ELSE IF recv.Name = <<>> /\ recv.Ref # <<>>
    THEN [n |-> Nil, err |-> "missing 'name' value"]
    ELSE IF recv.Name # <<>> /\ recv.Ref = <<>>
    THEN [n |-> Nil, err |-> "missing 'ref' value"]
    ELSE [n |-> [Kind |-> ScalarNode,
                 Value |-> recv.Name \o <<"@">> \o recv.Ref
                           \o (IF recv.Annotation # <<>>
                               THEN <<" ", "#", " ">> \o recv.Annotation
                               ELSE <<>>),
                 LineComment |-> <<>>],
          err |-> Nil]

\* (u Uses) MarshalYAML(): what is emitted and the error.  The empty string
\* that is returned for an unset value is emitted as an empty scalar.
UsesMarshalYAML(recv) ==
    IF recv.Name = <<>> /\ recv.Ref = <<>>
    THEN [n |-> [Kind |-> ScalarNode, Value |-> <<>>, LineComment |-> <<>>],
          err |-> Nil]
    ELSE IF UsesMissingName(recv)
    THEN [n |-> Nil, err |-> "missing 'name' value"]
    ELSE [n |-> [Kind |-> ScalarNode, Value |-> UsesValue(recv),
                 LineComment |-> UsesPrintable(recv.Annotation)],
          err |-> Nil]

AnnotationChars == {"v", "BEL"}

\* The Uses values that are encoded.
UsesValues ==
    [Name : SeqsUpTo(UsesChars, MaxNameLen), Ref : SeqsUpTo(UsesChars, MaxNameLen),
     Annotation : SeqsUpTo(AnnotationChars, MaxCommentLen)]

InitUses ==
    /\ \/ pc = "start" /\ n \in UsesNodes /\ u = Uses
       \/ pc = "encode" /\ n = Null /\ u \in UsesValues
    /\ m = Null /\ m2 = Null /\ p = Null /\ out = Null
    /\ err = Nil /\ err2 = Null
    /\ concurrency = Null /\ environment = Null /\ workflow = Null
    /\ manifest = Null /\ back = Null
    /\ needs = Null

DecodeUses ==
    /\ pc = "start"
    /\ LET r == UsesUnmarshalYAML(u, n)
       IN  u' = r.u /\ err' = r.err
    /\ pc' = "done"
    /\ UNCHANGED <<n, m, m2, p, out, err2,
                 concurrency, environment, workflow, manifest, back, needs>>

EncodeUses ==
    /\ pc = "encode"
    /\ LET r == UsesMarshalYAML(u)
       IN  out' = r.n /\ err' = r.err
    /\ pc' = "encoded"
    /\ UNCHANGED <<n, u, m, m2, p, err2,
                 concurrency, environment, workflow, manifest, back, needs>>

\* The emitted scalar is decoded into a fresh Uses value.
RedecodeUses ==
    /\ pc = "encoded"
    /\ err = Nil
    /\ LET r == UsesUnmarshalYAML(Uses, out)
       IN  back' = r.u /\ err2' = r.err
    /\ pc' = "redecoded"
    /\ UNCHANGED <<n, u, m, m2, p, out, err,
                 concurrency, environment, workflow, manifest, needs>>

NextUses == DecodeUses \/ EncodeUses \/ RedecodeUses

SpecUses == InitUses /\ [][NextUses]_vars

-----------------------------------------------------------------------------
(* Claims about Uses. *)

\* The 0-based index i holds the last '@' of s.
LastAtIs(s, i) ==
    /\ i + 1 \in 1..Len(s)
    /\ s[i + 1] = "@"
    /\ \A j \in (i + 2)..Len(s) : s[j] # "@"

HasAt(s) == \E j \in 1..Len(s) : s[j] = "@"

DecodedUsesScalar == pc = "done" /\ n.Kind = ScalarNode /\ n.Value # <<>>

\* C1: decoding a non-empty `uses` scalar s without '@' gives Name = s and
\* Ref = "" without error; when the last '@' is at index i, 0 < i < len(s)-1,
\* it gives Name = s[:i] and Ref = s[i+1:] without error, and Ref holds no '@'.
C1_UsesSplit ==
    DecodedUsesScalar =>
        /\ ~HasAt(n.Value) =>
               err = Nil /\ u.Name = n.Value /\ u.Ref = <<>>
        /\ \A i \in 1..(Len(n.Value) - 2) :
               LastAtIs(n.Value, i) =>
                   /\ err = Nil
                   /\ u.Name = SubSeq(n.Value, 1, i)
                   /\ u.Ref = SubSeq(n.Value, i + 2, Len(n.Value))
                   /\ ~HasAt(u.Ref)

\* C1 witness: a scalar with two '@' was split at the last one, so that the
\* name holds an '@'.
C1_Witness ==
    /\ DecodedUsesScalar
    /\ err = Nil
    /\ HasAt(u.Name)
    /\ u.Ref # <<>>

\* C2 as stated: a scalar with an '@' at position 0 or at its last index is
\* always an error.
C2_AnyEdgeAtIsError ==
    (DecodedUsesScalar /\ (n.Value[1] = "@" \/ n.Value[Len(n.Value)] = "@"))
        => err # Nil

\* C2 amended: a scalar whose last '@' is at position 0 or at its last index
\* is an error and leaves the receiver untouched; an '@' at the last index is
\* therefore always an error.
C2_LastAtEdgeIsError ==
    (DecodedUsesScalar
        /\ (LastAtIs(n.Value, 0) \/ n.Value[Len(n.Value)] = "@"))
        => err # Nil /\ u = Uses

\* C2 witness: the only '@' leads a longer scalar and the decode failed.
C2_Witness ==
    /\ DecodedUsesScalar
    /\ Len(n.Value) > 1
    /\ LastAtIs(n.Value, 0)
    /\ err # Nil

-----------------------------------------------------------------------------
(* Dynamic values: what yaml's Decode stores in an `any`. *)

AnyString(s) == [type |-> "string", val |-> s]
AnyInt(s) == [type |-> "int", val |-> s]
AnyBool(b) == [type |-> "bool", val |-> b]
AnyList(items) == [type |-> "[]any", items |-> items]
AnyMap(f) == [type |-> "map[string]any", m |-> f]

\* A map literal of one, two and three keys, and the empty map.
EmptyMap == <<>>
Map1(k1, v1) == [k \in {k1} |-> v1]
Map2(k1, v1, k2, v2) == [k \in {k1, k2} |-> IF k = k1 THEN v1 ELSE v2]
Map3(k1, v1, k2, v2, k3, v3) ==
    [k \in {k1, k2, k3} |-> IF k = k1 THEN v1 ELSE IF k = k2 THEN v2 ELSE v3]

\* got != want on two `any` values of comparable dynamic types.
AnyNeq(got, want) == got # want

\* The range of a sequence.
Range(s) == {s[i] : i \in DOMAIN s}

\* All orders in which a Go `range` may visit the keys S of a map.
RangeOrders(S) ==
    {o \in [1..Cardinality(S) -> S] : \A i, j \in DOMAIN o : i # j => o[i] # o[j]}

-----------------------------------------------------------------------------
(* Matrix (workflow.go). *)

\* A mapping node as its key/value pairs in document order; the values are
\* given as Decode stores them.
Pair(k, v) == [key |-> k, value |-> v]

\* n.Decode(&raw) of a mapping node into a map[string]any.
Decode(node) ==
    [k \in {node.Content[i].key : i \in DOMAIN node.Content} |->
        (CHOOSE c \in Range(node.Content) : c.key = k).value]

\* delete(raw, key)
Delete(raw, key) == [k \in DOMAIN raw \ {key} |-> raw[k]]

\* Variant of the extraction that takes whatever is under `key` as no
\* entries when it is not a list of mappings.
MatrixEntriesLenient(raw, key) ==
    IF key \in DOMAIN raw /\ raw[key].type = "[]any"
          /\ \A i \in DOMAIN raw[key].items : raw[key].items[i].type = "map[string]any"
    THEN [entries |-> [i \in DOMAIN raw[key].items |-> raw[key].items[i].m],
          err |-> Nil]
    ELSE [entries |-> <<>>, err |-> Nil]

\* The include/exclude extraction: the list of entries under `key`, or the
\* error of the failed type assertion.
MatrixEntries(raw, key) ==
    IF key \notin DOMAIN raw
    THEN [entries |-> <<>>, err |-> Nil]
    ELSE IF raw[key].type # "[]any"
    THEN [entries |-> <<>>, err |-> "invalid matrix." \o key]
    ELSE IF \E i \in DOMAIN raw[key].items : raw[key].items[i].type # "map[string]any"
    THEN [entries |-> <<>>, err |-> "invalid matrix." \o key \o " entry"]
    ELSE [entries |-> [i \in DOMAIN raw[key].items |-> raw[key].items[i].m],
          err |-> Nil]

\* The type switch on an axis value: the values of the axis.
MatrixAxisValues(tmp) ==
    IF tmp.type = "[]any" THEN tmp.items ELSE <<tmp>>

\* The axis values the type switch rejects.
MatrixAxisInvalid(tmp) == tmp.type \notin {"[]any", "string"}

\* Variant of the row that leaves out maps.Copy.
MatrixRowNoCopy(src, k, v) == [x \in {k} |-> v]

\* maps.Copy(dest, src); dest[k] = v on a fresh dest.
MatrixRow(src, k, v) ==
    [x \in DOMAIN src \cup {k} |-> IF x = k THEN v ELSE src[x]]

\* One axis of the product: for each v of vs, for each src of result, a row.
MatrixAxisStep(result, k, vs) ==
    [i \in 1..(Len(vs) * Len(result)) |->
        MatrixRow(result[((i - 1) % Len(result)) + 1], k,
                  vs[((i - 1) \div Len(result)) + 1])]

\* The loop over the axes, in the order the range over raw visits them.
RECURSIVE MatrixAxes(_, _, _)
MatrixAxes(result, raw, order) ==
    IF order = <<>>
    THEN result
    ELSE MatrixAxes(MatrixAxisStep(result, Head(order),
                                   MatrixAxisValues(raw[Head(order)])),
                    raw, Tail(order))

\* Variant of the seed that also seeds the empty row when there are no axes.
MatrixSeedAlways(raw) == <<EmptyMap>>

\* The working set the product starts from.
MatrixSeed(raw) == IF Cardinality(DOMAIN raw) # 0 THEN <<EmptyMap>> ELSE <<>>

\* Variant of the include test that only wants the keys of the row in the
\* include entry, whatever their values.
MatrixIncludeFoundKeysOnly(entry, include) ==
    \A k \in DOMAIN entry : k \in DOMAIN include

\* The include test: found stays set when every key of the row is in the
\* include entry with an equal value.
MatrixIncludeFound(entry, include) ==
    \A k \in DOMAIN entry : k \in DOMAIN include /\ ~AnyNeq(include[k], entry[k])

\* found[k] = v for every k, v of the include entry.
MatrixMerge(found, include) ==
    [k \in DOMAIN found \cup DOMAIN include |->
        IF k \in DOMAIN include THEN include[k] ELSE found[k]]

\* Variant of the merge that patches every matching row.
MatrixPatchAll(result, include) ==
    [i \in DOMAIN result |->
        IF MatrixIncludeFound(result[i], include)
        THEN MatrixMerge(result[i], include) ELSE result[i]]

\* The inner loop on a hit: the first matching row is patched in place.
MatrixPatch(result, include) ==
    LET first == CHOOSE i \in DOMAIN result :
                     /\ MatrixIncludeFound(result[i], include)
                     /\ \A j \in 1..(i - 1) : ~MatrixIncludeFound(result[j], include)
    IN  [result EXCEPT ![first] = MatrixMerge(@, include)]

\* Loop_include and the append of extend that follows it.
RECURSIVE MatrixIncludeLoop(_, _, _)
MatrixIncludeLoop(result, extend, include) ==
    IF include = <<>>
    THEN result \o extend
    ELSE IF \E i \in DOMAIN result : MatrixIncludeFound(result[i], Head(include))
    THEN MatrixIncludeLoop(MatrixPatch(result, Head(include)), extend, Tail(include))
    ELSE MatrixIncludeLoop(result, Append(extend, Head(include)), Tail(include))

\* Variant of the exclude test that also wants the row to have no other key.
MatrixExcludeFoundExact(entry, exclude) == entry = exclude

\* The exclude test: every key of the exclude entry is in the row with an
\* equal value.
MatrixExcludeFound(entry, exclude) ==
    \A k \in DOMAIN exclude : k \in DOMAIN entry /\ ~AnyNeq(entry[k], exclude[k])

\* append(result[0:i], result[i+1:]...) for the 1-based position i.
MatrixRemoveAt(result, i) ==
    [j \in 1..(Len(result) - 1) |-> IF j < i THEN result[j] ELSE result[j + 1]]

\* The removal of the positions omit, highest first.
RECURSIVE MatrixOmit(_, _)
MatrixOmit(result, omit) ==
    IF omit = {}
    THEN result
    ELSE LET i == CHOOSE x \in omit : \A y \in omit : y <= x
         IN  MatrixOmit(MatrixRemoveAt(result, i), omit \ {i})

\* The loop over the exclude entries.
RECURSIVE MatrixExcludeLoop(_, _)
MatrixExcludeLoop(result, exclude) ==
    IF exclude = <<>>
    THEN result
    ELSE MatrixExcludeLoop(
             MatrixOmit(result, {i \in DOMAIN result :
                                    MatrixExcludeFound(result[i], Head(exclude))}),
             Tail(exclude))

\* got != want on two `any` values panics at run time when both hold the
\* same dynamic type and that type, a map or a slice, is not comparable.
AnyUncomparable(got, want) ==
    got.type = want.type /\ got.type \in {"[]any", "map[string]any"}

\* Variant in which no two values are uncomparable.
MatrixComparePanicsNever(entry, other) == FALSE

\* The comparisons of a row with an include or exclude entry, made for the
\* keys both have, meet an uncomparable pair.
MatrixComparePanics(entry, other) ==
    \E k \in DOMAIN entry \cap DOMAIN other : AnyUncomparable(entry[k], other[k])

\* Loop_include panics: for some include entry, a row that is compared with
\* it, which is every row up to the first that matches, holds an
\* uncomparable pair.
RECURSIVE MatrixIncludePanics(_, _)
MatrixIncludePanics(result, include) ==
    IF include = <<>>
    THEN FALSE
    ELSE LET hits == {i \in DOMAIN result :
                         MatrixIncludeFound(result[i], Head(include))}
             last == IF hits = {} THEN Len(result)
                     ELSE CHOOSE i \in hits : \A h \in hits : i <= h
         IN  \/ \E i \in 1..last : MatrixComparePanics(result[i], Head(include))
             \/ MatrixIncludePanics(
                    IF hits = {} THEN result ELSE MatrixPatch(result, Head(include)),
                    Tail(include))

\* The loop over the exclude entries panics: every row left is compared
\* with every exclude entry.
RECURSIVE MatrixExcludePanics(_, _)
MatrixExcludePanics(result, exclude) ==
    IF exclude = <<>>
    THEN FALSE
    ELSE \/ \E i \in DOMAIN result : MatrixComparePanics(result[i], Head(exclude))
         \/ MatrixExcludePanics(
                MatrixOmit(result, {i \in DOMAIN result :
                                       MatrixExcludeFound(result[i], Head(exclude))}),
                Tail(exclude))

\* What the caller of the decoder sees of a run-time panic in it.
MatrixPanic == "panic: runtime error: comparing uncomparable type"

\* (m *Matrix) UnmarshalYAML(n), with the order in which the range over raw
\* visits the axes: the receiver after the call and the error.
MatrixUnmarshalYAML(recv, node, order) ==
    IF node.Kind # MappingNode
    THEN [m |-> recv, err |-> "invalid matrix"]
    ELSE LET raw0 == Decode(node)
             inc == MatrixEntries(raw0, "include")
             exc == MatrixEntries(raw0, "exclude")
             raw == Delete(Delete(raw0, "include"), "exclude")
         IN  IF inc.err # Nil THEN [m |-> recv, err |-> inc.err]
             ELSE IF exc.err # Nil THEN [m |-> recv, err |-> exc.err]
             ELSE IF \E k \in DOMAIN raw : MatrixAxisInvalid(raw[k])
             THEN [m |-> recv, err |-> "invalid matrix entry"]
             ELSE IF \/ MatrixIncludePanics(
                            MatrixAxes(MatrixSeed(raw), raw, order), inc.entries)
                     \/ MatrixExcludePanics(
                            MatrixIncludeLoop(
                                MatrixAxes(MatrixSeed(raw), raw, order),
                                <<>>, inc.entries),
                            exc.entries)
             THEN [m |-> recv, err |-> MatrixPanic]
             ELSE [m |-> MatrixExcludeLoop(
                             MatrixIncludeLoop(
                                 MatrixAxes(MatrixSeed(raw), raw, order),
                                 <<>>, inc.entries),
                             exc.entries),
                   err |-> Nil]

\* The axis keys of a matrix node.
MatrixAxisKeys(node) ==
    IF node.Kind # MappingNode THEN {}
    ELSE DOMAIN Decode(node) \ {"include", "exclude"}

\* The zero value of the Matrix slice.
Matrix == <<>>

AxisKeys == {"animal", "fruit"}

AxisVals == [animal |-> {"cat", "dog"}, fruit |-> {"apple", "pear"}]

\* The values an axis is given: a list of strings, a bare string, a bare
\* number, a bare boolean.
AxisChoices(k) ==
    {AnyList(s) : s \in SeqsUpTo({AnyString(v) : v \in AxisVals[k]}, MaxAxisLen)}
    \cup {AnyString("${{ x }}"), AnyInt("1"), AnyBool(TRUE)}

\* The axes declared in the order o, with every choice of their values.
RECURSIVE AxesIn(_)
AxesIn(o) ==
    IF o = <<>>
    THEN {<<>>}
    ELSE {<<Pair(Head(o), v)>> \o rest :
              v \in AxisChoices(Head(o)), rest \in AxesIn(Tail(o))}

\* Every declaration of at most the axes AxisKeys, in every order.
AllAxes == UNION {AxesIn(o) : o \in UNION {RangeOrders(S) : S \in SUBSET AxisKeys}}

Animals == Pair("animal", AnyList(<<AnyString("cat"), AnyString("dog")>>))
Fruits == Pair("fruit", AnyList(<<AnyString("apple"), AnyString("pear")>>))

Cats == Pair("animal", AnyList(<<AnyString("cat"), AnyString("cat")>>))

\* The axes the include and exclude entries are drawn against.
SomeAxes == {<<>>, <<Animals>>, <<Cats>>, <<Animals, Fruits>>, <<Fruits, Animals>>}

IncludeEntries ==
    {Map2("fruit", AnyString("apple"), "shape", AnyString("circle")),
     Map1("fruit", AnyString("banana")),
     Map2("fruit", AnyString("banana"), "animal", AnyString("cat")),
     Map3("animal", AnyString("cat"), "fruit", AnyString("apple"),
          "shape", AnyString("circle")),
     Map2("animal", AnyString("cat"), "shape", AnyString("square")),
     Map2("animal", AnyString("cat"), "shape", AnyString("circle")),
     Map1("shape", AnyString("circle"))}

ExcludeEntries ==
    {Map2("animal", AnyString("dog"), "fruit", AnyString("pear")),
     Map1("animal", AnyString("cat")),
     Map1("shape", AnyString("circle")),
     Map1("fruit", AnyString("banana")),
     Map2("animal", AnyString("cat"), "shape", AnyString("circle"))}

\* The `include:` (or `exclude:`) pair of a matrix node for a list of entries.
EntriesPair(key, entries) ==
    Pair(key, AnyList([i \in DOMAIN entries |-> AnyMap(entries[i])]))

\* No key, or the key with a list of mappings.
EntriesChoices(key, entries, max) ==
    {<<>>} \cup {<<EntriesPair(key, s)>> : s \in SeqsUpTo(entries, max)}

\* The key with something that is not a list of mappings.
BadEntriesChoices(key) ==
    {<<Pair(key, AnyString("all"))>>,
     <<Pair(key, AnyList(<<AnyString("all")>>))>>}

MatrixMapping(content) == [Kind |-> MappingNode, Value |-> <<>>, Content |-> content]

\* Axis values that are mappings, as in `node: [{version: 14}, {version: 20}]`.
Version14 == AnyMap(Map1("version", AnyInt("14")))
Version20 == AnyMap(Map1("version", AnyInt("20")))

NestedAxes == <<Pair("node", AnyList(<<Version14, Version20>>))>>

NestedInclude ==
    {Map2("node", Version14, "shape", AnyString("circle")),
     Map1("node", AnyString("14")),
     Map1("shape", AnyString("circle"))}

NestedExclude ==
    {Map1("node", Version20),
     Map1("node", AnyString("20")),
     Map1("shape", AnyString("circle"))}

\* The nodes a `matrix:` value is decoded from.
MatrixNodes ==
    {MatrixMapping(a) : a \in AllAxes}
    \cup {MatrixMapping(a \o i \o x) :
              a \in SomeAxes,
              i \in EntriesChoices("include", IncludeEntries, MaxInclude),
              x \in EntriesChoices("exclude", ExcludeEntries, MaxExclude)}
    \cup {MatrixMapping(NestedAxes \o i \o x) :
              i \in EntriesChoices("include", NestedInclude, 1),
              x \in EntriesChoices("exclude", NestedExclude, 1)}
    \cup {MatrixMapping(<<Animals>> \o i \o x) :
              i \in BadEntriesChoices("include") \cup {<<>>},
              x \in BadEntriesChoices("exclude") \cup {<<>>}}
    \cup {[Kind |-> ScalarNode, Value |-> <<"4", "2">>, Content |-> <<>>],
          [Kind |-> ScalarNode, Value |-> <<"$", "{", "{", "x", "}", "}">>,
           Content |-> <<>>],
          [Kind |-> SequenceNode, Value |-> <<>>, Content |-> <<>>]}

InitMatrix ==
    /\ pc = "start"
    /\ n \in MatrixNodes
    /\ m = Matrix /\ m2 = Matrix
    /\ u = Null /\ p = Null /\ out = Null
    /\ err = Nil /\ err2 = Nil
    /\ concurrency = Null /\ environment = Null /\ workflow = Null
    /\ manifest = Null /\ back = Null
    /\ needs = Null

\* yaml decodes the matrix node; the range over raw visits the axes in any
\* order.
DecodeMatrix ==
    /\ pc = "start"
    /\ \E order \in RangeOrders(MatrixAxisKeys(n)) :
           LET r == MatrixUnmarshalYAML(m, n, order)
           IN  m' = r.m /\ err' = r.err
    /\ pc' = "done"
    /\ UNCHANGED <<n, u, m2, p, out, err2,
                 concurrency, environment, workflow, manifest, back, needs>>

\* A second invocation on the same node, into a second Matrix.
DecodeMatrixAgain ==
    /\ pc = "done"
    /\ \E order \in RangeOrders(MatrixAxisKeys(n)) :
           LET r == MatrixUnmarshalYAML(m2, n, order)
           IN  m2' = r.m /\ err2' = r.err
    /\ pc' = "again"
    /\ UNCHANGED <<n, u, m, p, out, err,
                 concurrency, environment, workflow, manifest, back, needs>>

NextMatrix == DecodeMatrix \/ DecodeMatrixAgain

SpecMatrix == InitMatrix /\ [][NextMatrix]_vars

-----------------------------------------------------------------------------
(* Claims about the matrix expansion. *)

\* The decoded input of the matrix node n.
NAxes == Delete(Delete(Decode(n), "include"), "exclude")
NInclude == MatrixEntries(Decode(n), "include").entries
NExclude == MatrixEntries(Decode(n), "exclude").entries

\* The first invocation has returned without error on a mapping node.
Expanded == pc # "start" /\ n.Kind = MappingNode /\ err = Nil

\* Every axis of n is a list.
ListAxesOnly == \A k \in DOMAIN NAxes : NAxes[k].type = "[]any"

\* The product of g[k] over the keys k of S.
RECURSIVE ProductOf(_, _)
ProductOf(S, g) ==
    IF S = {} THEN 1
    ELSE LET k == CHOOSE x \in S : TRUE IN g[k] * ProductOf(S \ {k}, g)

\* The combinations of one value from each list axis of n.
Combinations ==
    {f \in [DOMAIN NAxes -> UNION {Range(NAxes[k].items) : k \in DOMAIN NAxes}] :
        \A k \in DOMAIN NAxes : f[k] \in Range(NAxes[k].items)}

\* How often the value v occurs in the list s.
Count(s, v) == Cardinality({i \in DOMAIN s : s[i] = v})

\* The rows of the product in one of the orders the axes may be visited in.
Products ==
    {MatrixAxes(MatrixSeed(NAxes), NAxes, o) : o \in RangeOrders(DOMAIN NAxes)}

\* C3: with axes that are lists and no include or exclude entries, the
\* expansion has one row per combination of one value from each axis (as
\* many rows as the product of the list lengths), every row has exactly the
\* axis names as keys, and a single axis gives its values in list order.
C3_CartesianProduct ==
    (/\ pc # "start" /\ n.Kind = MappingNode
     /\ DOMAIN Decode(n) # {}
     /\ DOMAIN Decode(n) \cap {"include", "exclude"} = {}
     /\ ListAxesOnly)
    => /\ err = Nil
       /\ Len(m) = ProductOf(DOMAIN NAxes, [k \in DOMAIN NAxes |-> Len(NAxes[k].items)])
       /\ \A i \in DOMAIN m : DOMAIN m[i] = DOMAIN NAxes
       /\ \A f \in Combinations :
              Cardinality({i \in DOMAIN m : m[i] = f})
                  = ProductOf(DOMAIN NAxes,
                              [k \in DOMAIN NAxes |-> Count(NAxes[k].items, f[k])])
       /\ \A k \in DOMAIN NAxes :
              DOMAIN NAxes = {k} =>
                  m = [i \in DOMAIN NAxes[k].items |-> Map1(k, NAxes[k].items[i])]

\* C3 witness: two axes of two distinct values each gave four distinct rows.
C3_Witness ==
    /\ Expanded
    /\ DOMAIN Decode(n) = {"animal", "fruit"}
    /\ ListAxesOnly
    /\ Len(m) = 4
    /\ Cardinality(Range(m)) = 4

\* Every key the row and the entry both have holds equal values in them.
CommonKeysAgree(row, entry) ==
    \A k \in DOMAIN row \cap DOMAIN entry : row[k] = entry[k]

\* C4: an include entry matches a row when every key in both has equal
\* values, keys in only one of the two notwithstanding: with one include
\* entry and no exclude entry, some combination agreeing with the entry on
\* their common keys means that no row is appended and that one such
\* combination is a row of the result with the entry merged in.
C4_IncludeMatchesOnCommonKeys ==
    (/\ Expanded /\ ListAxesOnly
     /\ Len(NInclude) = 1 /\ NExclude = <<>>
     /\ \E f \in Combinations : CommonKeysAgree(f, NInclude[1]))
    => /\ Len(m) = Cardinality(Combinations)
       /\ \E f \in Combinations :
              /\ CommonKeysAgree(f, NInclude[1])
              /\ \E i \in DOMAIN m : m[i] = MatrixMerge(f, NInclude[1])

\* The include loop as C5 states it: an entry that matches no row joins the
\* working set at once, where the later entries search it.
RECURSIVE IncludeSearchingAppended(_, _)
IncludeSearchingAppended(result, include) ==
    IF include = <<>>
    THEN result
    ELSE IF \E i \in DOMAIN result : MatrixIncludeFound(result[i], Head(include))
    THEN IncludeSearchingAppended(MatrixPatch(result, Head(include)), Tail(include))
    ELSE IncludeSearchingAppended(Append(result, Head(include)), Tail(include))

RECURSIVE RowAfter(_, _, _, _)
RECURSIVE HitOf(_, _, _)
RowAfter(base, include, i, j) ==
    IF j = 0 THEN base[i]
    ELSE IF HitOf(base, include, j) = i
    THEN [k \in DOMAIN RowAfter(base, include, i, j - 1) \cup DOMAIN include[j] |->
             IF k \in DOMAIN include[j] THEN include[j][k]
             ELSE RowAfter(base, include, i, j - 1)[k]]
    ELSE RowAfter(base, include, i, j - 1)
HitOf(base, include, j) ==
    LET hits == {i \in DOMAIN base :
                    \A k \in DOMAIN RowAfter(base, include, i, j - 1) :
                        /\ k \in DOMAIN include[j]
                        /\ include[j][k] = RowAfter(base, include, i, j - 1)[k]}
    IN  IF hits = {} THEN 0 ELSE CHOOSE i \in hits : \A h \in hits : i <= h

\* The entries of include that are merged into no row, in their order.
RECURSIVE Unmatched(_, _, _)
Unmatched(base, include, j) ==
    IF j = 0 THEN <<>>
    ELSE IF HitOf(base, include, j) = 0
    THEN Append(Unmatched(base, include, j - 1), include[j])
    ELSE Unmatched(base, include, j - 1)

Surviving(rows, exclude) ==
    LET Keep(row) ==
            \A j \in DOMAIN exclude :
                \E k \in DOMAIN exclude[j] :
                    k \notin DOMAIN row \/ row[k] # exclude[j][k]
    IN  SelectSeq(rows, Keep)

\* The rows after the include entries, in one of the orders of the axes.
Included == {MatrixIncludeLoop(base, <<>>, NInclude) : base \in Products}

C7_Deterministic == pc = "again" => (m2 = m /\ err2 = err)

\* C8 as stated: without axes and with an include entry, the include entries
\* are applied to a working set of exactly one empty row.
C8_EmptyRowSeeded ==
    (Expanded /\ DOMAIN NAxes = {} /\ NInclude # <<>>)
    => m = MatrixExcludeLoop(MatrixIncludeLoop(<<EmptyMap>>, <<>>, NInclude), NExclude)

\* C8 amended: without axes the working set starts empty whether or not
\* there are include entries, so that no include entry is merged into any
\* row: the result is the include entries in their order, less the rows the
\* exclude entries remove, and the empty sequence without include entries.
C8_NoAxesStartsEmpty ==
    (Expanded /\ DOMAIN NAxes = {})
    => /\ m = Surviving(NInclude, NExclude)
       /\ NInclude = <<>> => m = <<>>

\* C8 witness: without axes, two include entries of which the second holds
\* every key and value of the first are both rows of the result.
C8_Witness ==
    /\ Expanded /\ DOMAIN NAxes = {}
    /\ Len(NInclude) = 2
    /\ MatrixIncludeFound(NInclude[1], NInclude[2])
    /\ m = NInclude

-----------------------------------------------------------------------------
(* Permissions (workflow.go). *)

\* The fields of the Permissions struct, in their declared order.
PermissionsFields ==
    <<"Actions", "Attestations", "Checks", "Contents", "Deployments",
      "Discussions", "IdToken", "Issues", "Models", "Packages", "Pages",
      "PullRequests", "SecurityEvents", "Statuses">>

\* The key that UnmarshalYAML reads and MarshalYAML writes for each field.
PermissionsKey ==
    [Actions |-> "actions", Attestations |-> "attestations", Checks |-> "checks",
     Contents |-> "contents", Deployments |-> "deployments",
     Discussions |-> "discussions", IdToken |-> "id-token", Issues |-> "issues",
     Models |-> "models", Packages |-> "packages", Pages |-> "pages",
     PullRequests |-> "pull-requests", SecurityEvents |-> "security-events",
     Statuses |-> "statuses"]

\* The zero value of the Permissions struct.
Permissions == [f \in Range(PermissionsFields) |-> ""]

\* Variant of all that leaves Models as it is.
PermissionsAllButModels(recv, s) ==
    [f \in DOMAIN recv |-> IF f = "Models" THEN recv[f] ELSE s]

\* The closure all of UnmarshalYAML: every field of the receiver is set to s.
PermissionsAll(recv, s) == [f \in DOMAIN recv |-> s]

\* n.Decode(&perms) into a map[string]string fails on a value that is not a
\* scalar.
PermissionsDecodeFails(node) ==
    \E i \in DOMAIN node.Content : node.Content[i].value.type # "string"

\* (p *Permissions) UnmarshalYAML(n): the receiver after the call and the
\* error.
PermissionsUnmarshalYAML(recv, node) ==
    IF node.Kind = ScalarNode
    THEN IF node.Value = "read-all"
         THEN [p |-> PermissionsAll(recv, "read"), err |-> Nil]
         ELSE IF node.Value = "write-all"
         THEN [p |-> PermissionsAll(recv, "write"), err |-> Nil]
         ELSE [p |-> recv, err |-> "invalid permissions value"]
    ELSE IF node.Kind = MappingNode
    THEN IF PermissionsDecodeFails(node)
         THEN [p |-> recv, err |-> "yaml: cannot unmarshal into string"]
         ELSE LET perms == Decode(node)
                  none == PermissionsAll(recv, "none")
              IN  [p |-> [f \in DOMAIN none |->
                             IF PermissionsKey[f] \in DOMAIN perms
                             THEN perms[PermissionsKey[f]].val ELSE none[f]],
                   err |-> Nil]
    ELSE [p |-> recv, err |-> "invalid permissions"]

\* Variant of all that does not look at Statuses.
PermissionsIsAllButStatuses(recv, s) ==
    \A f \in DOMAIN recv \ {"Statuses"} : recv[f] = s

\* The closure all of MarshalYAML: every field of the receiver equals s.
PermissionsIsAll(recv, s) == \A f \in DOMAIN recv : recv[f] = s

\* Variant of the map perms that leaves out every field that is not "read".
RECURSIVE PermissionsPairsReadOnly(_, _)
PermissionsPairsReadOnly(recv, i) ==
    IF i > Len(PermissionsFields)
    THEN <<>>
    ELSE (IF recv[PermissionsFields[i]] = "read"
          THEN <<Pair(PermissionsKey[PermissionsFields[i]],
                      AnyString(recv[PermissionsFields[i]]))>>
          ELSE <<>>) \o PermissionsPairsReadOnly(recv, i + 1)

\* The pairs of the map perms of MarshalYAML, for the fields from position i
\* on: a field is left out when it is "none".  yaml writes the keys of a map
\* sorted, which is the declared order of the fields.
RECURSIVE PermissionsPairs(_, _)
PermissionsPairs(recv, i) ==
    IF i > Len(PermissionsFields)
    THEN <<>>
    ELSE (IF recv[PermissionsFields[i]] # "none"
          THEN <<Pair(PermissionsKey[PermissionsFields[i]],
                      AnyString(recv[PermissionsFields[i]]))>>
          ELSE <<>>) \o PermissionsPairs(recv, i + 1)

\* (p Permissions) MarshalYAML(): the node and the error.
PermissionsMarshalYAML(recv) ==
    IF PermissionsIsAll(recv, "read")
    THEN [n |-> [Kind |-> ScalarNode, Value |-> "read-all", Content |-> <<>>],
          err |-> Nil]
    ELSE IF PermissionsIsAll(recv, "write")
    THEN [n |-> [Kind |-> ScalarNode, Value |-> "write-all", Content |-> <<>>],
          err |-> Nil]
    ELSE [n |-> [Kind |-> MappingNode, Value |-> "",
                 Content |-> PermissionsPairs(recv, 1)],
          err |-> Nil]

PermissionsKeys == Range(PermissionsKey) \cup {"metadata"}

\* What a key of a `permissions` mapping is given: a level, or a list.
PermissionsChoices ==
    {AnyString("read"), AnyString("write"), AnyString("none"),
     AnyList(<<AnyInt("3"), AnyInt("14")>>)}

\* The mappings of the keys K, in the order of the sequence keys.
RECURSIVE PermissionsContents(_, _)
PermissionsContents(keys, K) ==
    IF keys = <<>>
    THEN {<<>>}
    ELSE IF Head(keys) \in K
    THEN {<<Pair(Head(keys), v)>> \o rest :
              v \in PermissionsChoices, rest \in PermissionsContents(Tail(keys), K)}
    ELSE PermissionsContents(Tail(keys), K)

PermissionsKeyOrder ==
    [i \in DOMAIN PermissionsFields |-> PermissionsKey[PermissionsFields[i]]]
    \o <<"metadata">>

\* The nodes a `permissions:` value is decoded from: scalars, a sequence,
\* the mappings of few keys and the mappings that give every scope one level.
PermissionsNodes ==
    [Kind : {ScalarNode}, Value : {"read-all", "write-all", "read", "3.14", ""},
     Content : {<<>>}]
    \cup {[Kind |-> SequenceNode, Value |-> "", Content |-> <<>>]}
    \cup {[Kind |-> MappingNode, Value |-> "", Content |-> c] :
              c \in UNION {PermissionsContents(PermissionsKeyOrder, K) :
                              K \in {S \in SUBSET PermissionsKeys :
                                        Cardinality(S) <= MaxPermissions}}}
    \cup {[Kind |-> MappingNode, Value |-> "",
           Content |-> [i \in DOMAIN PermissionsFields |->
                           Pair(PermissionsKey[PermissionsFields[i]], v)]] :
              v \in PermissionsChoices}

\* The Permissions values that are encoded: every field at one level but
\* for few fields.
PermissionsValues ==
    {[f \in Range(PermissionsFields) |-> IF f \in DOMAIN d THEN d[f] ELSE b] :
        b \in {"read", "write", "none", ""},
        d \in UNION {[S -> {"read", "write", "none", ""}] :
                        S \in {T \in SUBSET Range(PermissionsFields) :
                                  Cardinality(T) <= MaxPermissions}}}

InitPermissions ==
    /\ \/ pc = "decode" /\ n \in PermissionsNodes /\ p = Permissions
       \/ pc = "encode" /\ n = Null /\ p \in PermissionsValues
    /\ out = Null
    /\ u = Null /\ m = Null /\ m2 = Null
    /\ err = Nil /\ err2 = Null
    /\ concurrency = Null /\ environment = Null /\ workflow = Null
    /\ manifest = Null /\ back = Null
    /\ needs = Null

DecodePermissions ==
    /\ pc = "decode"
    /\ LET r == PermissionsUnmarshalYAML(p, n)
       IN  p' = r.p /\ err' = r.err
    /\ pc' = "decoded"
    /\ UNCHANGED <<n, u, m, m2, out, err2,
                 concurrency, environment, workflow, manifest, back, needs>>

EncodePermissions ==
    /\ pc = "encode"
    /\ LET r == PermissionsMarshalYAML(p)
       IN  out' = r.n /\ err' = r.err
    /\ pc' = "encoded"
    /\ UNCHANGED <<n, u, m, m2, p, err2,
                 concurrency, environment, workflow, manifest, back, needs>>

\* The encoded node is decoded into a fresh Permissions value.
RedecodePermissions ==
    /\ pc = "encoded"
    /\ err = Nil
    /\ LET r == PermissionsUnmarshalYAML(Permissions, out)
       IN  back' = r.p /\ err2' = r.err
    /\ pc' = "redecoded"
    /\ UNCHANGED <<n, u, m, m2, p, out, err,
                 concurrency, environment, workflow, manifest, needs>>

NextPermissions == DecodePermissions \/ EncodePermissions \/ RedecodePermissions

SpecPermissions == InitPermissions /\ [][NextPermissions]_vars

-----------------------------------------------------------------------------
(* Claims about Permissions. *)

\* The 14 scopes and the field that holds each.
ScopeField ==
    [actions |-> "Actions", attestations |-> "Attestations", checks |-> "Checks",
     contents |-> "Contents", deployments |-> "Deployments",
     discussions |-> "Discussions", issues |-> "Issues", models |-> "Models",
     packages |-> "Packages", pages |-> "Pages", statuses |-> "Statuses"]
    @@ ("id-token" :> "IdToken") @@ ("pull-requests" :> "PullRequests")
    @@ ("security-events" :> "SecurityEvents")

Scopes == DOMAIN ScopeField

\* The value the mapping node gives the key k, when it gives one.
Listed(node, k) == \E i \in DOMAIN node.Content : node.Content[i].key = k
ValueOf(node, k) ==
    (CHOOSE c \in Range(node.Content) : c.key = k).value

\* C9: the scalars "read-all" and "write-all" set all 14 scopes to "read" and
\* to "write", every other scalar and a sequence is an error; a mapping (of
\* scalar values) sets every listed scope to its value and every other scope
\* to "none".
C9_PermissionsDecode ==
    pc = "decoded" =>
        /\ Cardinality(Scopes) = 14
        /\ (n.Kind = ScalarNode /\ n.Value = "read-all")
              => err = Nil /\ \A s \in Scopes : p[ScopeField[s]] = "read"
        /\ (n.Kind = ScalarNode /\ n.Value = "write-all")
              => err = Nil /\ \A s \in Scopes : p[ScopeField[s]] = "write"
        /\ (n.Kind = ScalarNode /\ n.Value \notin {"read-all", "write-all"})
              => err # Nil
        /\ n.Kind = SequenceNode => err # Nil
        /\ (n.Kind = MappingNode
                /\ \A i \in DOMAIN n.Content : n.Content[i].value.type = "string")
              => /\ err = Nil
                 /\ \A s \in Scopes :
                        p[ScopeField[s]] =
                            IF Listed(n, s) THEN ValueOf(n, s).val ELSE "none"

\* C9 witness: a mapping of two scopes, one of them "write", was decoded and
\* left twelve scopes at "none".
C9_Witness ==
    /\ pc = "decoded" /\ err = Nil
    /\ n.Kind = MappingNode
    /\ Cardinality({s \in Scopes : Listed(n, s)}) = 2
    /\ \E s \in Scopes : p[ScopeField[s]] = "write"
    /\ Cardinality({s \in Scopes : p[ScopeField[s]] = "none"}) = 12

\* C10: encoding gives the scalar "read-all" exactly when all 14 scopes are
\* "read", the scalar "write-all" exactly when all are "write", and otherwise
\* a mapping of exactly the scopes that are not "none", each with its value;
\* it never fails.
C10_PermissionsEncode ==
    pc = "encoded" =>
        /\ err = Nil
        /\ (out.Kind = ScalarNode /\ out.Value = "read-all")
              <=> \A s \in Scopes : p[ScopeField[s]] = "read"
        /\ (out.Kind = ScalarNode /\ out.Value = "write-all")
              <=> \A s \in Scopes : p[ScopeField[s]] = "write"
        /\ (\E s, t \in Scopes :
                p[ScopeField[s]] # p[ScopeField[t]]
                    \/ p[ScopeField[s]] \notin {"read", "write"})
              => /\ out.Kind = MappingNode
                 /\ \A i, j \in DOMAIN out.Content :
                        i # j => out.Content[i].key # out.Content[j].key
                 /\ \A s \in Scopes :
                        /\ Listed(out, s) <=> p[ScopeField[s]] # "none"
                        /\ Listed(out, s)
                              => ValueOf(out, s) = AnyString(p[ScopeField[s]])
                 /\ \A i \in DOMAIN out.Content : out.Content[i].key \in Scopes

\* C10 witness: a value of thirteen "read" and one "none" was encoded as a
\* mapping of thirteen scopes.
C10_Witness ==
    /\ pc = "encoded"
    /\ Cardinality({s \in Scopes : p[ScopeField[s]] = "read"}) = 13
    /\ Cardinality({s \in Scopes : p[ScopeField[s]] = "none"}) = 1
    /\ out.Kind = MappingNode
    /\ Len(out.Content) = 13


\* The levels a scope of a valid Permissions value holds.
Levels == {"read", "write", "none"}

\* C11: for every Permissions value whose 14 scopes each hold "read",
\* "write" or "none", decoding its encoding succeeds and gives a value equal
\* to it in all 14 scopes.
C11_PermissionsRoundTrip ==
    (pc = "redecoded" /\ \A s \in Scopes : p[ScopeField[s]] \in Levels)
        => /\ err2 = Nil
           /\ \A s \in Scopes : back[ScopeField[s]] = p[ScopeField[s]]

\* C11 witness: a value that mixes the three levels went through a mapping
\* and came back.
C11_Witness ==
    /\ pc = "redecoded"
    /\ out.Kind = MappingNode
    /\ \A l \in Levels : \E s \in Scopes : p[ScopeField[s]] = l
    /\ back = p

-----------------------------------------------------------------------------
(* Claims about the encoding of Uses. *)

\* A Uses value was encoded.
EncodedUses == pc \in {"encoded", "redecoded"}

\* The values that decoding can give back: the ref holds no '@', and the
\* name holds none when there is no ref.
UsesSplittable(recv) ==
    /\ ~HasAt(recv.Ref)
    /\ recv.Ref = <<>> => ~HasAt(recv.Name)

C13_RefWithoutNameFails ==
    (EncodedUses /\ u.Name = <<>> /\ u.Ref # <<>>) => err # Nil /\ out = Nil

\* C13 witness: a ref without a name was handed to the encoder and rejected.
C13_Witness ==
    /\ pc = "encoded"
    /\ u.Name = <<>> /\ Len(u.Ref) = 2
    /\ err = "missing 'name' value"

-----------------------------------------------------------------------------
(* Concurrency (workflow.go). *)

\* The zero value of the Concurrency struct.
Concurrency == [CancelInProgress |-> "", Group |-> ""]

\* fmt.Sprintf("%t", v)
FormatBool(v) == IF v THEN "true" ELSE "false"

\* Variant of the type switch on cancel-in-progress that only takes a bool.
ConcurrencyCancelBoolOnly(v) ==
    IF v.type = "bool"
    THEN [val |-> FormatBool(v.val), ok |-> TRUE]
    ELSE [val |-> "", ok |-> FALSE]

\* The type switch on the value of cancel-in-progress: what is stored, and
\* whether the dynamic type is one of its cases.
ConcurrencyCancel(v) ==
    IF v.type = "bool"
    THEN [val |-> FormatBool(v.val), ok |-> TRUE]
    ELSE IF v.type = "string"
    THEN [val |-> v.val, ok |-> TRUE]
    ELSE [val |-> "", ok |-> FALSE]

\* Variant of the scalar case that stores the scalar in CancelInProgress.
ConcurrencyScalarAsCancel(recv, node) ==
    [recv EXCEPT !.CancelInProgress = node.Value]

\* The scalar case: the scalar is the group.
ConcurrencyScalar(recv, node) == [recv EXCEPT !.Group = node.Value]

\* (c *Concurrency) UnmarshalYAML(n): the receiver after the call and the
\* error.  The receiver keeps a CancelInProgress stored before a failing
\* group.
ConcurrencyUnmarshalYAML(recv, node) ==
    IF node.Kind = ScalarNode
    THEN [c |-> ConcurrencyScalar(recv, node), err |-> Nil]
    ELSE IF node.Kind = MappingNode
    THEN LET raw == Decode(node)
             cancel == IF "cancel-in-progress" \in DOMAIN raw
                       THEN ConcurrencyCancel(raw["cancel-in-progress"])
                       ELSE [val |-> recv.CancelInProgress, ok |-> TRUE]
             c1 == [recv EXCEPT !.CancelInProgress = cancel.val]
         IN  IF ~cancel.ok
             THEN [c |-> recv, err |-> "invalid concurrency.cancel-in-progress"]
             ELSE IF "group" \in DOMAIN raw
             THEN IF raw["group"].type # "string"
                  THEN [c |-> c1, err |-> "invalid concurrency.group"]
                  ELSE [c |-> [c1 EXCEPT !.Group = raw["group"].val],
                        err |-> Nil]
             ELSE [c |-> c1, err |-> Nil]
    ELSE [c |-> recv, err |-> "invalid concurrency"]

\* What the keys of a `concurrency` mapping are given.
ConcurrencyChoices ==
    {AnyBool(TRUE), AnyBool(FALSE), AnyString("foobar"), AnyString("true"),
     AnyString("${{ github.ref }}"), AnyInt("42"),
     AnyList(<<AnyInt("3"), AnyInt("14")>>)}

ConcurrencyKeys == {"cancel-in-progress", "group", "queue"}

\* The mapping contents of the keys K, in every order.
ConcurrencyContents(K) ==
    {[i \in DOMAIN o |-> Pair(o[i], v[o[i]])] :
        o \in RangeOrders(K), v \in [K -> ConcurrencyChoices]}

\* The nodes a `concurrency:` value is decoded from.
ConcurrencyNodes ==
    [Kind : {ScalarNode}, Value : {"foobar", "42", ""}, Content : {<<>>}]
    \cup {[Kind |-> SequenceNode, Value |-> "", Content |-> <<>>]}
    \cup {[Kind |-> MappingNode, Value |-> "", Content |-> c] :
              c \in UNION {ConcurrencyContents(K) : K \in SUBSET ConcurrencyKeys}}

InitConcurrency ==
    /\ pc = "decode"
    /\ n \in ConcurrencyNodes
    /\ concurrency = Concurrency
    /\ u = Null /\ m = Null /\ m2 = Null /\ p = Null /\ out = Null
    /\ err = Nil /\ err2 = Null
    /\ environment = Null /\ workflow = Null /\ manifest = Null /\ back = Null
    /\ needs = Null

DecodeConcurrency ==
    /\ pc = "decode"
    /\ LET r == ConcurrencyUnmarshalYAML(concurrency, n)
       IN  concurrency' = r.c /\ err' = r.err
    /\ pc' = "decoded"
    /\ UNCHANGED <<n, u, m, m2, p, out, err2,
                 environment, workflow, manifest, back, needs>>

NextConcurrency == DecodeConcurrency

SpecConcurrency == InitConcurrency /\ [][NextConcurrency]_vars

-----------------------------------------------------------------------------
(* Claims about Concurrency. *)

\* The mapping node gives the key k a value of the dynamic type ty.
ListedAs(node, k, ty) == Listed(node, k) /\ ValueOf(node, k).type = ty

-----------------------------------------------------------------------------
(* Environment (workflow.go). *)

\* The zero value of the Environment struct.
Environment == [Name |-> "", Url |-> ""]

\* n.Decode(&env) into a map[string]string, its error dropped: the map
\* holds the keys whose values are scalars, each with the text of its scalar.
EnvironmentDecode(node) ==
    LET raw == Decode(node)
    IN  [k \in {j \in DOMAIN raw : raw[j].type \in {"string", "int"}} |->
            raw[k].val]

\* Variant of the mapping case that does not read the url key.
EnvironmentMappingNameOnly(recv, env) ==
    [recv EXCEPT !.Name = IF "name" \in DOMAIN env THEN env["name"] ELSE @]

\* The mapping case: a key that is there overwrites its field.
EnvironmentMapping(recv, env) ==
    [Name |-> IF "name" \in DOMAIN env THEN env["name"] ELSE recv.Name,
     Url |-> IF "url" \in DOMAIN env THEN env["url"] ELSE recv.Url]

\* The error of n.Decode(&env): a value that is not a scalar cannot be
\* stored in a string.
EnvironmentDecodeError(node) ==
    IF \E k \in DOMAIN Decode(node) : Decode(node)[k].type \notin {"string", "int"}
    THEN "yaml: unmarshal errors"
    ELSE Nil

\* Variant that returns the error of n.Decode(&env).
EnvironmentDecodeReturned(e) == e

\* `_ = n.Decode(&env)`: the error is dropped.
EnvironmentDecodeDropped(e) == Nil

\* (e *Environment) UnmarshalYAML(n): the receiver after the call and the
\* error.
EnvironmentUnmarshalYAML(recv, node) ==
    IF node.Kind = ScalarNode
    THEN [e |-> [recv EXCEPT !.Name = node.Value], err |-> Nil]
    ELSE IF node.Kind = MappingNode
    THEN [e |-> EnvironmentMapping(recv, EnvironmentDecode(node)),
          err |-> EnvironmentDecodeDropped(EnvironmentDecodeError(node))]
    ELSE [e |-> recv, err |-> "invalid environment"]

\* Variant of the choice of the scalar form: whenever there is a name.
EnvironmentIsScalarByName(recv) == recv.Name # ""

\* The choice of the scalar form by MarshalYAML.
EnvironmentIsScalar(recv) == recv.Url = ""

\* (e Environment) MarshalYAML(): the node and the error.  n.Encode writes
\* the keys of the map sorted.
EnvironmentMarshalYAML(recv) ==
    IF EnvironmentIsScalar(recv)
    THEN [n |-> [Kind |-> ScalarNode, Value |-> recv.Name, Content |-> <<>>],
          err |-> Nil]
    ELSE [n |-> [Kind |-> MappingNode, Value |-> "",
                 Content |-> <<Pair("name", AnyString(recv.Name)),
                               Pair("url", AnyString(recv.Url))>>],
          err |-> Nil]

\* What the keys of an `environment` mapping are given.
EnvironmentChoices ==
    {AnyString("production"), AnyString("https://example.com"), AnyString(""),
     AnyInt("42"), AnyList(<<AnyString("foo"), AnyString("bar")>>),
     AnyMap(Map1("foo", AnyString("bar")))}

EnvironmentKeys == {"name", "url", "deployment"}

\* The mapping contents of the keys K, in every order.
EnvironmentContents(K) ==
    {[i \in DOMAIN o |-> Pair(o[i], v[o[i]])] :
        o \in RangeOrders(K), v \in [K -> EnvironmentChoices]}

\* The nodes an `environment:` value is decoded from.
EnvironmentNodes ==
    [Kind : {ScalarNode}, Value : {"production", "42", ""}, Content : {<<>>}]
    \cup {[Kind |-> SequenceNode, Value |-> "", Content |-> <<>>]}
    \cup {[Kind |-> MappingNode, Value |-> "", Content |-> c] :
              c \in UNION {EnvironmentContents(K) : K \in SUBSET EnvironmentKeys}}

\* The Environment values that are encoded.
EnvironmentValues ==
    [Name : {"", "production", "staging"},
     Url : {"", "https://example.com", "${{ steps.deploy.outputs.url }}"}]

InitEnvironment ==
    /\ \/ pc = "decode" /\ n \in EnvironmentNodes /\ environment = Environment
       \/ pc = "encode" /\ n = Null /\ environment \in EnvironmentValues
    /\ u = Null /\ m = Null /\ m2 = Null /\ p = Null /\ out = Null
    /\ err = Nil /\ err2 = Null
    /\ concurrency = Null /\ workflow = Null /\ manifest = Null /\ back = Null
    /\ needs = Null

DecodeEnvironment ==
    /\ pc = "decode"
    /\ LET r == EnvironmentUnmarshalYAML(environment, n)
       IN  environment' = r.e /\ err' = r.err
    /\ pc' = "decoded"
    /\ UNCHANGED <<n, u, m, m2, p, out, err2,
                 concurrency, workflow, manifest, back, needs>>

EncodeEnvironment ==
    /\ pc = "encode"
    /\ LET r == EnvironmentMarshalYAML(environment)
       IN  out' = r.n /\ err' = r.err
    /\ pc' = "encoded"
    /\ UNCHANGED <<n, u, m, m2, p, err2,
                 concurrency, environment, workflow, manifest, back, needs>>

\* The encoded node is decoded into a fresh Environment value.
RedecodeEnvironment ==
    /\ pc = "encoded"
    /\ err = Nil
    /\ LET r == EnvironmentUnmarshalYAML(Environment, out)
       IN  back' = r.e /\ err2' = r.err
    /\ pc' = "redecoded"
    /\ UNCHANGED <<n, u, m, m2, p, out, err,
                 concurrency, environment, workflow, manifest, needs>>

NextEnvironment == DecodeEnvironment \/ EncodeEnvironment \/ RedecodeEnvironment

SpecEnvironment == InitEnvironment /\ [][NextEnvironment]_vars

-----------------------------------------------------------------------------
(* Claims about Environment. *)

\* C19: a scalar s gives Name = s and an empty Url; a mapping (of strings)
\* gives Name from its name key and Url from its url key, and a key that is
\* missing leaves its field empty; a node that is neither a scalar nor a
\* mapping, such as a sequence, is an error.
C19_EnvironmentDecode ==
    pc = "decoded" =>
        /\ n.Kind = ScalarNode =>
               err = Nil /\ environment = [Name |-> n.Value, Url |-> ""]
        /\ n.Kind = SequenceNode => err # Nil /\ environment = Environment
        /\ (n.Kind = MappingNode
                /\ \A k \in {"name", "url"} :
                       Listed(n, k) => ListedAs(n, k, "string"))
              => /\ err = Nil
                 /\ environment.Name =
                        IF Listed(n, "name") THEN ValueOf(n, "name").val ELSE ""
                 /\ environment.Url =
                        IF Listed(n, "url") THEN ValueOf(n, "url").val ELSE ""

\* C19 witness: a mapping that gives a url and no name was decoded.
C19_Witness ==
    /\ pc = "decoded" /\ err = Nil
    /\ n.Kind = MappingNode
    /\ ~Listed(n, "name")
    /\ environment = [Name |-> "", Url |-> "https://example.com"]

\* An Environment value was encoded.
EncodedEnvironment == pc \in {"encoded", "redecoded"}

\* C20: the encoding is the scalar Name exactly when Url is empty and the
\* mapping of name and url otherwise, and decoding the encoding of any
\* Environment gives back its Name and its Url.
C20_EnvironmentEncode ==
    EncodedEnvironment =>
        /\ err = Nil
        /\ out.Kind = ScalarNode <=> environment.Url = ""
        /\ out.Kind = ScalarNode => out.Value = environment.Name
        /\ out.Kind # ScalarNode =>
               /\ out.Kind = MappingNode
               /\ {out.Content[i].key : i \in DOMAIN out.Content} = {"name", "url"}
               /\ Len(out.Content) = 2
               /\ ValueOf(out, "name") = AnyString(environment.Name)
               /\ ValueOf(out, "url") = AnyString(environment.Url)
        /\ pc = "redecoded" =>
               /\ err2 = Nil
               /\ back.Name = environment.Name
               /\ back.Url = environment.Url

\* C20 witness: a value with a url and no name went through the mapping
\* form and came back.
C20_Witness ==
    /\ pc = "redecoded"
    /\ environment.Name = "" /\ environment.Url # ""
    /\ out.Kind = MappingNode
    /\ back = environment

-----------------------------------------------------------------------------
(* ParseWorkflow (workflow.go) and ParseManifest (manifest.go). *)

\* The nodes of a document: a scalar, a mapping of keys to nodes, a sequence
\* of nodes.
ScalarOf(v) == [Kind |-> ScalarNode, Value |-> v, Content |-> <<>>]
MappingOf(c) == [Kind |-> MappingNode, Value |-> "", Content |-> c]
SequenceOf(c) == [Kind |-> SequenceNode, Value |-> "", Content |-> c]

\* The zero values of the structs, with the fields that the documents below
\* fill.
Job == [Name |-> "", Environment |-> Environment, Concurrency |-> Concurrency]
Workflow == [Name |-> "", Concurrency |-> Concurrency, Jobs |-> EmptyMap]
Step == [Uses |-> Uses]
Runs ==
    [Using |-> "", Steps |-> <<>>,
     Image |-> "", PreEntrypoint |-> "", Entrypoint |-> "",
     PostEntrypoint |-> "", Args |-> <<>>, Env |-> EmptyMap,
     Pre |-> "", PreIf |-> "", Main |-> "", Post |-> "", PostIf |-> ""]
Manifest == [Name |-> "", Description |-> "", Runs |-> Runs]

\* The state of yaml.Unmarshal while it fills a value: the value, whether a
\* type error was recorded (decoding goes on after one), and the error of a
\* codec that stopped the decoding, if any.
YamlState(v) == [v |-> v, terrors |-> FALSE, failed |-> Nil]

\* A codec that returns an error stops the decoding with that error.
YamlFail(acc, e) == IF e # Nil THEN [acc EXCEPT !.failed = e] ELSE acc

\* A string field is filled from a scalar; any other node is a type error
\* that leaves the field as it is.
YamlString(acc, field, node) ==
    IF node.Kind = ScalarNode
    THEN [acc EXCEPT !.v[field] = node.Value]
    ELSE [acc EXCEPT !.terrors = TRUE]

\* One key of a job.
JobField(acc, pair) ==
    IF pair.key = "name"
    THEN YamlString(acc, "Name", pair.value)
    ELSE IF pair.key = "environment"
    THEN LET r == EnvironmentUnmarshalYAML(acc.v.Environment, pair.value)
         IN  YamlFail([acc EXCEPT !.v.Environment = r.e], r.err)
    ELSE IF pair.key = "concurrency"
    THEN LET r == ConcurrencyUnmarshalYAML(acc.v.Concurrency, pair.value)
         IN  YamlFail([acc EXCEPT !.v.Concurrency = r.c], r.err)
    ELSE acc

\* The keys of a job from position i on, until a codec stops the decoding.
RECURSIVE JobFields(_, _, _)
JobFields(acc, content, i) ==
    IF i > Len(content) \/ acc.failed # Nil
    THEN acc
    ELSE JobFields(JobField(acc, content[i]), content, i + 1)

\* m[k] = v
MapSet(f, k, v) == [x \in DOMAIN f \cup {k} |-> IF x = k THEN v ELSE f[x]]

\* The entries of `jobs` from position i on: a job that is not a mapping is
\* a type error and is left out, a job whose decoding was stopped is not
\* stored.
RECURSIVE JobsEntries(_, _, _)
JobsEntries(acc, content, i) ==
    IF i > Len(content) \/ acc.failed # Nil
    THEN acc
    ELSE LET node == content[i].value
             r == JobFields(YamlState(Job), node.Content, 1)
         IN  JobsEntries(
                 IF node.Kind # MappingNode
                 THEN [acc EXCEPT !.terrors = TRUE]
                 ELSE IF r.failed # Nil
                 THEN [acc EXCEPT !.failed = r.failed]
                 ELSE [acc EXCEPT !.v = MapSet(acc.v, content[i].key, r.v),
                                  !.terrors = acc.terrors \/ r.terrors],
                 content, i + 1)

\* One key of a workflow.
WorkflowField(acc, pair) ==
    IF pair.key = "name"
    THEN YamlString(acc, "Name", pair.value)
    ELSE IF pair.key = "concurrency"
    THEN LET r == ConcurrencyUnmarshalYAML(acc.v.Concurrency, pair.value)
         IN  YamlFail([acc EXCEPT !.v.Concurrency = r.c], r.err)
    ELSE IF pair.key = "jobs"
    THEN IF pair.value.Kind # MappingNode
         THEN [acc EXCEPT !.terrors = TRUE]
         ELSE LET r == JobsEntries(YamlState(acc.v.Jobs), pair.value.Content, 1)
              IN  [acc EXCEPT !.v.Jobs = r.v,
                              !.terrors = acc.terrors \/ r.terrors,
                              !.failed = r.failed]
    ELSE acc

\* The keys of a workflow from position i on.
RECURSIVE WorkflowFields(_, _, _)
WorkflowFields(acc, content, i) ==
    IF i > Len(content) \/ acc.failed # Nil
    THEN acc
    ELSE WorkflowFields(WorkflowField(acc, content[i]), content, i + 1)

\* One key of a step.
StepField(acc, pair) ==
    IF pair.key = "uses"
    THEN LET r == UsesUnmarshalYAML(acc.v.Uses, pair.value)
         IN  YamlFail([acc EXCEPT !.v.Uses = r.u], r.err)
    ELSE acc

\* The keys of a step from position i on.
RECURSIVE StepFields(_, _, _)
StepFields(acc, content, i) ==
    IF i > Len(content) \/ acc.failed # Nil
    THEN acc
    ELSE StepFields(StepField(acc, content[i]), content, i + 1)

\* The items of `steps` from position i on, the next one stored at j.  The
\* slice has the length of the sequence from the start; an item that is not
\* a mapping is a type error and takes no place.
RECURSIVE StepsItems(_, _, _, _)
StepsItems(acc, content, i, j) ==
    IF acc.failed # Nil
    THEN acc
    ELSE IF i > Len(content)
    THEN [acc EXCEPT !.v = SubSeq(acc.v, 1, j - 1)]
    ELSE LET node == content[i]
             r == StepFields(YamlState(Step), node.Content, 1)
         IN  IF node.Kind # MappingNode
             THEN StepsItems([acc EXCEPT !.terrors = TRUE], content, i + 1, j)
             ELSE IF r.failed # Nil
             THEN [acc EXCEPT !.failed = r.failed]
             ELSE StepsItems([acc EXCEPT !.v[j] = r.v], content, i + 1, j + 1)

\* The string fields of Runs by their yaml keys.
RunsStrings ==
    [k \in {"using", "image", "pre-entrypoint", "entrypoint", "post-entrypoint",
            "pre", "pre-if", "main", "post", "post-if"} |->
        CASE k = "using" -> "Using"
          [] k = "image" -> "Image"
          [] k = "pre-entrypoint" -> "PreEntrypoint"
          [] k = "entrypoint" -> "Entrypoint"
          [] k = "post-entrypoint" -> "PostEntrypoint"
          [] k = "pre" -> "Pre"
          [] k = "pre-if" -> "PreIf"
          [] k = "main" -> "Main"
          [] k = "post" -> "Post"
          [] k = "post-if" -> "PostIf"]

\* One key of `runs`.
RunsField(acc, pair) ==
    IF pair.key \in DOMAIN RunsStrings
    THEN YamlString(acc, RunsStrings[pair.key], pair.value)
    ELSE IF pair.key = "steps"
    THEN IF pair.value.Kind # SequenceNode
         THEN [acc EXCEPT !.terrors = TRUE]
         ELSE LET r == StepsItems(
                           YamlState([i \in DOMAIN pair.value.Content |-> Step]),
                           pair.value.Content, 1, 1)
              IN  [acc EXCEPT !.v.Steps = r.v,
                              !.terrors = acc.terrors \/ r.terrors,
                              !.failed = r.failed]
    ELSE acc

\* The keys of `runs` from position i on.
RECURSIVE RunsFields(_, _, _)
RunsFields(acc, content, i) ==
    IF i > Len(content) \/ acc.failed # Nil
    THEN acc
    ELSE RunsFields(RunsField(acc, content[i]), content, i + 1)

\* One key of a manifest.
ManifestField(acc, pair) ==
    IF pair.key = "name"
    THEN YamlString(acc, "Name", pair.value)
    ELSE IF pair.key = "description"
    THEN YamlString(acc, "Description", pair.value)
    ELSE IF pair.key = "runs"
    THEN IF pair.value.Kind # MappingNode
         THEN [acc EXCEPT !.terrors = TRUE]
         ELSE LET r == RunsFields(YamlState(acc.v.Runs), pair.value.Content, 1)
              IN  [acc EXCEPT !.v.Runs = r.v,
                              !.terrors = acc.terrors \/ r.terrors,
                              !.failed = r.failed]
    ELSE acc

\* The keys of a manifest from position i on.
RECURSIVE ManifestFields(_, _, _)
ManifestFields(acc, content, i) ==
    IF i > Len(content) \/ acc.failed # Nil
    THEN acc
    ELSE ManifestFields(ManifestField(acc, content[i]), content, i + 1)

\* The error yaml.Unmarshal returns: that of the parser for bytes that are
\* not YAML, that of the codec that stopped the decoding, the collected type
\* errors, or nil.
YamlError(data, acc) ==
    IF data.malformed
    THEN "yaml: did not find expected key"
    ELSE IF acc.failed # Nil
    THEN acc.failed
    ELSE IF acc.terrors
    THEN "yaml: unmarshal errors"
    ELSE Nil

\* yaml.Unmarshal(data, &v) for a struct v filled by fields: v after the
\* call and the error.  Nothing is decoded from bytes that are not YAML; a
\* document that is not a mapping is a type error.
YamlUnmarshal(data, v, acc) ==
    IF data.malformed
    THEN [v |-> v, err |-> YamlError(data, acc)]
    ELSE IF data.root.Kind # MappingNode
    THEN [v |-> v, err |-> "yaml: unmarshal errors"]
    ELSE [v |-> acc.v, err |-> YamlError(data, acc)]

\* Variant of the wrapping of ParseManifest with the words of ParseWorkflow.
ManifestErrorfAsWorkflow(cause) == "could not parse workflow: " \o cause

\* fmt.Errorf("could not parse manifest: %v", err)
ManifestErrorf(cause) == "could not parse manifest: " \o cause

\* fmt.Errorf("could not parse workflow: %v", err)
WorkflowErrorf(cause) == "could not parse workflow: " \o cause

\* ParseWorkflow(data): the workflow and the error that are returned, and the
\* error of yaml.Unmarshal.
ParseWorkflow(data) ==
    LET r == YamlUnmarshal(data, Workflow,
                 WorkflowFields(YamlState(Workflow), data.root.Content, 1))
    IN  [workflow |-> r.v,
         err |-> IF r.err # Nil THEN WorkflowErrorf(r.err) ELSE Nil,
         cause |-> r.err]

\* ParseManifest(data): the manifest and the error that are returned, and the
\* error of yaml.Unmarshal.
ParseManifest(data) ==
    LET r == YamlUnmarshal(data, Manifest,
                 ManifestFields(YamlState(Manifest), data.root.Content, 1))
    IN  [manifest |-> r.v,
         err |-> IF r.err # Nil THEN ManifestErrorf(r.err) ELSE Nil,
         cause |-> r.err]

\* The mapping contents of the keys K in every order, the key k given a node
\* of choices[k].
DocContents(K, choices) ==
    {[i \in DOMAIN o |-> Pair(o[i], v[o[i]])] :
        o \in RangeOrders(K),
        v \in {f \in [K -> UNION {choices[k] : k \in K}] :
                  \A k \in K : f[k] \in choices[k]}}

\* The `concurrency:` values of the documents.
DocConcurrencyNodes ==
    {ScalarOf("foobar"),
     SequenceOf(<<AnyInt("3"), AnyInt("14")>>),
     MappingOf(<<Pair("cancel-in-progress", AnyString("foobar"))>>),
     MappingOf(<<Pair("cancel-in-progress", AnyInt("42"))>>),
     MappingOf(<<Pair("cancel-in-progress", AnyBool(TRUE)),
                 Pair("group", AnyList(<<AnyInt("42")>>))>>)}

\* The `environment:` values of the documents.
DocEnvironmentNodes ==
    {ScalarOf("production"),
     SequenceOf(<<AnyInt("3"), AnyInt("14")>>),
     MappingOf(<<Pair("name", AnyString("production")),
                 Pair("url", AnyString("https://example.com"))>>)}

\* The jobs of the documents.
DocJobNodes ==
    {ScalarOf("3.14")}
    \cup {MappingOf(c) :
              c \in {<<>>}
                  \cup {<<Pair("concurrency", x)>> : x \in DocConcurrencyNodes}
                  \cup {<<Pair("environment", x)>> : x \in DocEnvironmentNodes}
                  \cup {<<Pair("environment", ScalarOf("production")),
                          Pair("concurrency", x)>> : x \in DocConcurrencyNodes}}

\* The workflow documents: the bytes as the tree of their nodes, or bytes
\* that are not YAML.
WorkflowDocs ==
    [malformed : BOOLEAN,
     root : {ScalarOf("foobar")}
            \cup {MappingOf(c) :
                     c \in UNION {DocContents(K,
                                     [name |-> {ScalarOf("x"),
                                                SequenceOf(<<ScalarOf("foo"),
                                                             ScalarOf("bar")>>)},
                                      concurrency |-> DocConcurrencyNodes,
                                      jobs |-> {ScalarOf("3.14"), MappingOf(<<>>)}
                                               \cup {MappingOf(<<Pair("example", j)>>) :
                                                        j \in DocJobNodes}]) :
                                  K \in SUBSET {"name", "concurrency", "jobs"}}}]

\* A `uses:` scalar of a step.
UsesOf(v) == [Kind |-> ScalarNode, Value |-> v, LineComment |-> <<>>]

\* The `steps:` values of the documents.
DocStepsNodes ==
    {ScalarOf("3.14")}
    \cup {SequenceOf(<<MappingOf(<<Pair("uses", x)>>)>>) :
              x \in {UsesOf(<<"a", "@", "a">>), UsesOf(<<"a", "@">>),
                      UsesOf(<<"a">>)}}
    \cup {SequenceOf(<<ScalarOf("3.14"),
                       MappingOf(<<Pair("uses", UsesOf(<<"a", "@", "a">>))>>),
                       MappingOf(<<Pair("uses", UsesOf(<<"@", "a">>))>>)>>)}

\* The manifest documents.
ManifestDocs ==
    [malformed : BOOLEAN,
     root : {ScalarOf("foobar")}
            \cup {MappingOf(c) :
                     c \in UNION {DocContents(K,
                                     [name |-> {ScalarOf("x"),
                                                SequenceOf(<<ScalarOf("foo"),
                                                             ScalarOf("bar")>>)},
                                      description |-> {ScalarOf("d")},
                                      runs |-> {ScalarOf("3.14")}
                                               \cup {MappingOf(r) :
                                                        r \in DocContents({"using"},
                                                                 [using |-> {ScalarOf("composite")}])
                                                            \cup DocContents({"using", "steps"},
                                                                 [using |-> {ScalarOf("composite")},
                                                                  steps |-> DocStepsNodes])}]) :
                                  K \in SUBSET {"name", "description", "runs"}}}]

InitParse ==
    /\ \/ pc = "workflow" /\ n \in WorkflowDocs
       \/ pc = "manifest" /\ n \in ManifestDocs
    /\ workflow = Null /\ manifest = Null
    /\ u = Null /\ m = Null /\ m2 = Null /\ p = Null /\ out = Null
    /\ err = Nil /\ err2 = Nil
    /\ concurrency = Null /\ environment = Null /\ back = Null
    /\ needs = Null

\* ParseWorkflow is called on the document; err2 is the error of
\* yaml.Unmarshal.
CallParseWorkflow ==
    /\ pc = "workflow"
    /\ LET r == ParseWorkflow(n)
       IN  workflow' = r.workflow /\ err' = r.err /\ err2' = r.cause
    /\ pc' = "workflow returned"
    /\ UNCHANGED <<n, u, m, m2, p, out,
                 concurrency, environment, manifest, back, needs>>

\* ParseManifest is called on the document.
CallParseManifest ==
    /\ pc = "manifest"
    /\ LET r == ParseManifest(n)
       IN  manifest' = r.manifest /\ err' = r.err /\ err2' = r.cause
    /\ pc' = "manifest returned"
    /\ UNCHANGED <<n, u, m, m2, p, out,
                 concurrency, environment, workflow, back, needs>>

NextParse == CallParseWorkflow \/ CallParseManifest

SpecParse == InitParse /\ [][NextParse]_vars

-----------------------------------------------------------------------------
(* Claims about ParseWorkflow and ParseManifest. *)

\* ParseWorkflow has returned; ParseManifest has returned.
WorkflowReturned == pc = "workflow returned"
ManifestReturned == pc = "manifest returned"

\* The nodes that a mapping node gives the key k.
Under(node, k) ==
    IF node.Kind = MappingNode
    THEN {node.Content[i].value : i \in {j \in DOMAIN node.Content :
                                             node.Content[j].key = k}}
    ELSE {}

\* The nodes that a mapping node gives any key, and the items of a sequence.
Children(node) == {node.Content[i].value : i \in DOMAIN node.Content}
Items(node) == {node.Content[i] : i \in DOMAIN node.Content}

\* A `concurrency:` value, an `environment:` value, a `uses:` value that its
\* codec rejects.
BadConcurrency(x) == ConcurrencyUnmarshalYAML(Concurrency, x).err # Nil
BadEnvironment(x) == EnvironmentUnmarshalYAML(Environment, x).err # Nil
BadUses(x) == UsesUnmarshalYAML(Uses, x).err # Nil

\* Something in the job fails to decode.
JobFails(j) ==
    \/ j.Kind # MappingNode
    \/ \E x \in Under(j, "name") : x.Kind # ScalarNode
    \/ \E x \in Under(j, "concurrency") : BadConcurrency(x)
    \/ \E x \in Under(j, "environment") : BadEnvironment(x)

\* Something in the workflow document fails to decode.
WorkflowFails(data) ==
    \/ data.malformed
    \/ data.root.Kind # MappingNode
    \/ \E x \in Under(data.root, "name") : x.Kind # ScalarNode
    \/ \E x \in Under(data.root, "concurrency") : BadConcurrency(x)
    \/ \E x \in Under(data.root, "jobs") :
           x.Kind # MappingNode \/ \E j \in Children(x) : JobFails(j)

\* Something in the step fails to decode.
StepFails(s) ==
    s.Kind # MappingNode \/ \E x \in Under(s, "uses") : BadUses(x)

\* Something in the manifest document fails to decode.
ManifestFails(data) ==
    \/ data.malformed
    \/ data.root.Kind # MappingNode
    \/ \E k \in {"name", "description"} :
           \E x \in Under(data.root, k) : x.Kind # ScalarNode
    \/ \E x \in Under(data.root, "runs") :
           \/ x.Kind # MappingNode
           \/ \E y \in Under(x, "using") : y.Kind # ScalarNode
           \/ \E y \in Under(x, "steps") :
                  y.Kind # SequenceNode \/ \E s \in Items(y) : StepFails(s)

\* C15: whenever something in the document fails to decode, ParseWorkflow
\* returns the error "could not parse workflow: " followed by the cause and
\* ParseManifest the error "could not parse manifest: " followed by the
\* cause; when the decoding succeeds the error is nil.
C15_ParseErrorWrapped ==
    /\ WorkflowReturned =>
           IF WorkflowFails(n)
           THEN err2 # Nil /\ err = "could not parse workflow: " \o err2
           ELSE err2 = Nil /\ err = Nil
    /\ ManifestReturned =>
           IF ManifestFails(n)
           THEN err2 # Nil /\ err = "could not parse manifest: " \o err2
           ELSE err2 = Nil /\ err = Nil

\* C15 witness: a manifest whose only fault is the `uses` of a step was
\* rejected with the error of the Uses codec as the cause.
C15_Witness ==
    /\ ManifestReturned
    /\ ~n.malformed
    /\ err2 = "invalid uses value"
    /\ err = "could not parse manifest: invalid uses value"

\* C16: when ParseWorkflow or ParseManifest returns an error, the model that
\* is returned with it holds nothing that was decoded.
C16_NoPartialModel ==
    /\ (WorkflowReturned /\ err # Nil) => workflow = Workflow
    /\ (ManifestReturned /\ err # Nil) => manifest = Manifest

\* The documents that hold nothing but one `concurrency:` value x, at the
\* level of the workflow and at the level of a job.
WorkflowLevel(x) == MappingOf(<<Pair("concurrency", x)>>)
JobLevel(x) ==
    MappingOf(<<Pair("jobs",
                    MappingOf(<<Pair("example",
                                    MappingOf(<<Pair("concurrency", x)>>))>>))>>)

\* A `concurrency` mapping of the one key cancel-in-progress, its value of
\* the dynamic type ty.
OnlyCancel(x, ty) ==
    /\ x.Kind = MappingNode
    /\ Len(x.Content) = 1
    /\ ListedAs(x, "cancel-in-progress", ty)

-----------------------------------------------------------------------------
(* Needs (workflow.go). *)

\* The zero value of the Needs slice.
Needs == <<>>

\* n.Decode(&list) into a []string fails on an item that is not a scalar.
NeedsDecodeFails(node) ==
    \E i \in DOMAIN node.Content : node.Content[i].type \notin {"string", "int"}

\* n.Decode(&list) into a []string: every scalar item with its text, in the
\* order of the sequence.
NeedsDecode(node) == [i \in DOMAIN node.Content |-> node.Content[i].val]

\* Variant of the scalar case that gives the empty list.
NeedsScalarEmpty(node) == <<>>

\* The scalar case: the one-element list of the scalar.
NeedsScalar(node) == <<node.Value>>

\* (l *Needs) UnmarshalYAML(n): the receiver after the call and the error.
NeedsUnmarshalYAML(recv, node) ==
    IF node.Kind = ScalarNode
    THEN [l |-> NeedsScalar(node), err |-> Nil]
    ELSE IF node.Kind = SequenceNode
    THEN IF NeedsDecodeFails(node)
         THEN [l |-> recv, err |-> "yaml: cannot unmarshal into string"]
         ELSE [l |-> NeedsDecode(node), err |-> Nil]
    ELSE [l |-> recv, err |-> "invalid job.needs"]

\* What the items of a `needs` sequence are.
NeedsItems ==
    {AnyString("build"), AnyString("test"), AnyInt("42"),
     AnyList(<<AnyString("build")>>)}

\* The nodes a `needs:` value is decoded from.
NeedsNodes ==
    [Kind : {ScalarNode}, Value : {"foobar", "build", ""}, Content : {<<>>}]
    \cup {[Kind |-> SequenceNode, Value |-> "", Content |-> c] :
              c \in SeqsUpTo(NeedsItems, MaxNeeds)}
    \cup {[Kind |-> MappingNode, Value |-> "", Content |-> c] :
              c \in {<<>>, <<Pair("foo", AnyString("bar"))>>,
                     <<Pair("build", AnyString("test")),
                       Pair("test", AnyString("build"))>>}}

InitNeeds ==
    /\ pc = "decode"
    /\ n \in NeedsNodes
    /\ needs = Needs
    /\ u = Null /\ m = Null /\ m2 = Null /\ p = Null /\ out = Null
    /\ err = Nil /\ err2 = Null
    /\ concurrency = Null /\ environment = Null /\ workflow = Null
    /\ manifest = Null /\ back = Null

DecodeNeeds ==
    /\ pc = "decode"
    /\ LET r == NeedsUnmarshalYAML(needs, n)
       IN  needs' = r.l /\ err' = r.err
    /\ pc' = "decoded"
    /\ UNCHANGED <<n, u, m, m2, p, out, err2,
                 concurrency, environment, workflow, manifest, back>>

NextNeeds == DecodeNeeds

SpecNeeds == InitNeeds /\ [][NextNeeds]_vars

-----------------------------------------------------------------------------
(* Claims about Needs. *)

\* C21: a single scalar s gives the one-element list of s; a sequence of
\* strings gives the list of those strings in the same order; a mapping is
\* an error.
C21_NeedsDecode ==
    pc = "decoded" =>
        /\ n.Kind = ScalarNode => err = Nil /\ needs = <<n.Value>>
        /\ (n.Kind = SequenceNode
                /\ \A i \in DOMAIN n.Content : n.Content[i].type = "string")
              => /\ err = Nil
                 /\ Len(needs) = Len(n.Content)
                 /\ \A i \in DOMAIN n.Content : needs[i] = n.Content[i].val
        /\ n.Kind = MappingNode => err # Nil /\ needs = Needs

\* C21 witness: a sequence of three job names, not in alphabetical order,
\* was decoded.
C21_Witness ==
    /\ pc = "decoded" /\ err = Nil
    /\ n.Kind = SequenceNode
    /\ needs = <<"test", "build", "test">>

-----------------------------------------------------------------------------
(* Further claims about the matrix expansion. *)

\* The first invocation has returned.
MatrixDecoded == pc \in {"done", "again"}

\* The mapping node gives the key k something that is not a sequence of
\* mappings.
NotEntries(node, k) ==
    /\ Listed(node, k)
    /\ \/ ValueOf(node, k).type # "[]any"
       \/ \E i \in DOMAIN ValueOf(node, k).items :
              ValueOf(node, k).items[i].type # "map[string]any"

\* C22: decoding fails when the node is not a mapping and when include or
\* exclude is there but is not a sequence of mappings; include and exclude
\* are never axes, so that no row has a key of that name.
C22_MatrixRejects ==
    MatrixDecoded =>
        /\ n.Kind # MappingNode => err # Nil /\ m = Matrix
        /\ (n.Kind = MappingNode
                /\ (NotEntries(n, "include") \/ NotEntries(n, "exclude")))
              => err # Nil /\ m = Matrix
        /\ err = Nil =>
               \A i \in DOMAIN m : DOMAIN m[i] \cap {"include", "exclude"} = {}

\* C22 witness: an include that is a sequence of strings was rejected next
\* to a valid axis.
C22_Witness ==
    /\ pc = "done"
    /\ n.Kind = MappingNode
    /\ Listed(n, "animal")
    /\ ListedAs(n, "include", "[]any")
    /\ NotEntries(n, "include")
    /\ err = "invalid matrix.include entry"

\* The node with every axis that is a bare scalar given as the list of that
\* one value.
ScalarsAsLists(node) ==
    [node EXCEPT !.Content =
        [i \in DOMAIN node.Content |->
            IF /\ node.Content[i].key \notin {"include", "exclude"}
               /\ node.Content[i].value.type \in {"string", "int", "bool"}
            THEN Pair(node.Content[i].key, AnyList(<<node.Content[i].value>>))
            ELSE node.Content[i]]]

\* Some axis of n is a bare scalar of the type t.
BareAxis(t) == \E k \in DOMAIN NAxes : NAxes[k].type = t

\* C23: an axis given as a bare scalar of any type, a string, a number or a
\* boolean, is expanded as a list of that one value, without error: the
\* decode gives what it gives for the node with the one-element lists.
C23_BareScalarAxis ==
    (/\ MatrixDecoded /\ pc = "done" /\ n.Kind = MappingNode
     /\ ~NotEntries(n, "include") /\ ~NotEntries(n, "exclude")
     /\ BareAxis("string") \/ BareAxis("int") \/ BareAxis("bool"))
    => /\ err = Nil
       /\ \E order \in RangeOrders(MatrixAxisKeys(n)) :
              m = MatrixUnmarshalYAML(Matrix, ScalarsAsLists(n), order).m

\* A scalar that is a context expression.
IsExpression(v) ==
    /\ Len(v) >= 5
    /\ SubSeq(v, 1, 3) = <<"$", "{", "{">>
    /\ SubSeq(v, Len(v) - 1, Len(v)) = <<"}", "}">>

\* C24: a matrix that is, as a whole, a context-expression scalar is
\* accepted without error.
C24_ExpressionMatrixAccepted ==
    (MatrixDecoded /\ n.Kind = ScalarNode /\ IsExpression(n.Value))
    => err = Nil

\* Some row of the product and some entry of the list hold a mapping under
\* the same key.
MappingsMeet(entries) ==
    \E base \in Products : \E i \in DOMAIN base, j \in DOMAIN entries :
        \E k \in DOMAIN base[i] \cap DOMAIN entries[j] :
            /\ base[i][k].type = "map[string]any"
            /\ entries[j][k].type = "map[string]any"

\* C25: matrix values that are mappings are carried through and compared by
\* deep equality when include and exclude entries are matched: the
\* comparison of two mapping values never aborts the decode, which ends
\* without error with the rows that deep equality gives.
C25_MappingValuesCompared ==
    (/\ MatrixDecoded /\ n.Kind = MappingNode
     /\ ~NotEntries(n, "include") /\ ~NotEntries(n, "exclude")
     /\ ListAxesOnly
     /\ MappingsMeet(NInclude) \/ MappingsMeet(NExclude))
    => /\ err = Nil
       /\ \E rows \in Included : m = Surviving(rows, NExclude)

\* The rows after the first j include entries of n, from the product base.
IncludedUpTo(base, j) == MatrixIncludeLoop(base, <<>>, SubSeq(NInclude, 1, j))

\* The row after holds every key of the row before, with the same value.
Keeps(before, after) ==
    \A k \in DOMAIN before : k \in DOMAIN after /\ after[k] = before[k]

\* C29: applying the include entries never changes a value a row already
\* holds and never removes a key: every include entry leaves each row of
\* the product with the keys and values it had, so that after all of them
\* every row of the product still holds its axis values, with or without
\* further keys.
C29_IncludeKeepsRowValues ==
    (Expanded /\ NExclude = <<>>)
    => \E base \in Products :
           /\ m = IncludedUpTo(base, Len(NInclude))
           /\ \A j \in 1..Len(NInclude) : \A i \in DOMAIN base :
                  Keeps(IncludedUpTo(base, j - 1)[i], IncludedUpTo(base, j)[i])
           /\ \A i \in DOMAIN base : Keeps(base[i], m[i])

\* C29 witness: two include entries were applied and a row of the product
\* holds its axis values and a key more.
C29_Witness ==
    /\ Expanded /\ NExclude = <<>>
    /\ Len(NInclude) = 2
    /\ \E base \in Products : \E i \in DOMAIN base :
           /\ Keeps(base[i], m[i])
           /\ DOMAIN m[i] # DOMAIN base[i]
           /\ DOMAIN base[i] = {"animal", "fruit"}

-----------------------------------------------------------------------------
(* A further claim about the decoding of `uses`. *)

\* A trailing comment without its marker: the '#' that starts it and the
\* spaces that follow the '#'.
WithoutMarker(comment) ==
    IF comment # <<>> /\ Head(comment) = "#"
    THEN TrimLeft(Tail(comment), {" "})
    ELSE comment

\* C28: decoding a non-empty `uses` scalar, with or without an '@', gives as
\* Annotation the trailing comment without its leading marker, a '#' and the
\* spaces after it, the rest of the comment unchanged; without a comment the
\* Annotation is empty.
C28_AnnotationIsComment ==
    (/\ DecodedUsesScalar /\ err = Nil
     /\ n.LineComment = <<>> \/ Head(n.LineComment) = "#")
    => u.Annotation = WithoutMarker(n.LineComment)

-----------------------------------------------------------------------------
(* A further claim about the decoding of `environment`. *)

\* C30: decoding an `environment` mapping never returns an error, whatever
\* its keys and the kinds of their values; an error is returned only for a
\* node that is neither a scalar nor a mapping.
C30_EnvironmentMappingAccepted ==
    pc = "decoded" =>
        /\ n.Kind = MappingNode => err = Nil
        /\ err # Nil => n.Kind \notin {ScalarNode, MappingNode}

\* C30 witness: a mapping that gives name a sequence, url a mapping and has a
\* key that is not a field was decoded without error.
C30_Witness ==
    /\ pc = "decoded" /\ err = Nil
    /\ n.Kind = MappingNode
    /\ ListedAs(n, "name", "[]any")
    /\ ListedAs(n, "url", "map[string]any")
    /\ Listed(n, "deployment")

-----------------------------------------------------------------------------
(* The encoding of a Manifest (manifest.go): yaml.Marshal goes by the tags
   of the struct fields. *)

\* A field of Runs: its yaml key, its name, whether its tag has omitempty,
\* how it is encoded, and the `using` its comment in the struct files it
\* under.
RunsTag(key, field, omitempty, as, using) ==
    [key |-> key, field |-> field, omitempty |-> omitempty, as |-> as,
     using |-> using]

\* The fields of Runs in the order of their declaration.
RunsTags ==
    <<RunsTag("using", "Using", FALSE, "string", "any"),
      RunsTag("steps", "Steps", TRUE, "steps", "composite"),
      RunsTag("image", "Image", TRUE, "string", "docker"),
      RunsTag("pre-entrypoint", "PreEntrypoint", TRUE, "string", "docker"),
      RunsTag("entrypoint", "Entrypoint", TRUE, "string", "docker"),
      RunsTag("post-entrypoint", "PostEntrypoint", TRUE, "string", "docker"),
      RunsTag("args", "Args", TRUE, "strings", "docker"),
      RunsTag("env", "Env", TRUE, "map", "docker"),
      RunsTag("pre", "Pre", TRUE, "string", "node"),
      RunsTag("pre-if", "PreIf", TRUE, "string", "node"),
      RunsTag("main", "Main", TRUE, "string", "node"),
      RunsTag("post", "Post", TRUE, "string", "node"),
      RunsTag("post-if", "PostIf", TRUE, "string", "node")>>

\* The zero test of omitempty: the empty string, a slice or a map of length
\* zero.
IsZero(v, as) == IF as = "string" THEN v = "" ELSE DOMAIN v = {}

\* Variant of the omitempty test that keeps every field.
OmitEmptyNever(tag, v) == FALSE

\* A field is left out when its tag has omitempty and its value is zero.
OmitEmpty(tag, v) == tag.omitempty /\ IsZero(v, tag.as)

\* The encoding of a Step: uses has omitempty and is left out when the Uses
\* struct is zero; otherwise it is what Uses.MarshalYAML gives.
StepMarshal(step) ==
    IF step.Uses = Uses
    THEN [n |-> MappingOf(<<>>), err |-> Nil]
    ELSE LET r == UsesMarshalYAML(step.Uses)
         IN  IF r.err # Nil
             THEN [n |-> Nil, err |-> r.err]
             ELSE [n |-> MappingOf(<<Pair("uses", r.n)>>), err |-> Nil]

\* The first error among the encodings of the steps, if any.
StepsError(steps) ==
    IF \E i \in DOMAIN steps : StepMarshal(steps[i]).err # Nil
    THEN StepMarshal(steps[CHOOSE i \in DOMAIN steps :
                               /\ StepMarshal(steps[i]).err # Nil
                               /\ \A j \in 1..(i - 1) :
                                      StepMarshal(steps[j]).err = Nil]).err
    ELSE Nil

\* The encoding of the value of a field.
FieldMarshal(v, as) ==
    CASE as = "string" -> ScalarOf(v)
      [] as = "strings" -> SequenceOf([i \in DOMAIN v |-> ScalarOf(v[i])])
      [] as = "steps" -> SequenceOf([i \in DOMAIN v |-> StepMarshal(v[i]).n])
      [] as = "map" ->
             LET o == CHOOSE o \in RangeOrders(DOMAIN v) : TRUE
             IN  MappingOf([i \in DOMAIN o |-> Pair(o[i], ScalarOf(v[o[i]]))])

\* The pairs of the fields from position i on.
RECURSIVE RunsPairs(_, _)
RunsPairs(runs, i) ==
    IF i > Len(RunsTags)
    THEN <<>>
    ELSE (IF OmitEmpty(RunsTags[i], runs[RunsTags[i].field])
          THEN <<>>
          ELSE <<Pair(RunsTags[i].key,
                      FieldMarshal(runs[RunsTags[i].field], RunsTags[i].as))>>)
         \o RunsPairs(runs, i + 1)

\* The encoding of a Runs value: the node and the error.
RunsMarshal(runs) ==
    IF StepsError(runs.Steps) # Nil
    THEN [n |-> Nil, err |-> StepsError(runs.Steps)]
    ELSE [n |-> MappingOf(RunsPairs(runs, 1)), err |-> Nil]

\* yaml.Marshal of a Manifest, for the fields the model holds: name,
\* description and runs have no omitempty.
ManifestMarshal(recv) ==
    LET r == RunsMarshal(recv.Runs)
    IN  IF r.err # Nil
        THEN [n |-> Nil, err |-> r.err]
        ELSE [n |-> MappingOf(<<Pair("name", ScalarOf(recv.Name)),
                                Pair("description", ScalarOf(recv.Description)),
                                Pair("runs", r.n)>>),
              err |-> Nil]

\* The steps of the manifests that are encoded.
RunsSteps ==
    {<<>>,
     <<[Uses |-> [Name |-> <<"a">>, Ref |-> <<"b">>, Annotation |-> <<>>]]>>,
     <<[Uses |-> [Name |-> <<>>, Ref |-> <<"b">>, Annotation |-> <<>>]]>>}

\* The Runs values that are encoded: any fields set under any `using`.
RunsValues ==
    {[Runs EXCEPT !.Using = g, !.Steps = s, !.Image = i, !.Args = a,
                  !.Main = x, !.PostIf = y] :
        g \in {"composite", "docker", "node20"},
        s \in RunsSteps,
        i \in {"", "alpine"},
        a \in {<<>>, <<"-v">>},
        x \in {"", "main.js"},
        y \in {"", "${{ always() }}"}}

InitManifest ==
    /\ pc = "encode"
    /\ manifest \in {[Name |-> "x", Description |-> "d", Runs |-> r] :
                        r \in RunsValues}
    /\ n = Null /\ u = Null /\ m = Null /\ m2 = Null /\ p = Null /\ out = Null
    /\ err = Nil /\ err2 = Nil
    /\ concurrency = Null /\ environment = Null /\ workflow = Null
    /\ back = Null /\ needs = Null

\* yaml.Marshal(manifest)
EncodeManifest ==
    /\ pc = "encode"
    /\ LET r == ManifestMarshal(manifest)
       IN  out' = r.n /\ err' = r.err
    /\ pc' = "encoded"
    /\ UNCHANGED <<n, u, m, m2, p, err2, concurrency, environment, workflow,
                   manifest, back, needs>>

NextManifest == EncodeManifest

SpecManifest == InitManifest /\ [][NextManifest]_vars

\* The `using` kind the value of using stands for.
UsingKind(using) ==
    IF using = "composite" THEN "composite"
    ELSE IF using = "docker" THEN "docker"
    ELSE "node"

\* A manifest was encoded without error; the mapping emitted for its runs.
ManifestEncoded == pc = "encoded" /\ err = Nil
RunsOut == ValueOf(out, "runs")

-----------------------------------------------------------------------------
(* The Matrix that is kept as written (part_007): the axes, the include
   entries and the exclude entries, not expanded. *)

\* The zero value of the struct.
UnexpandedMatrix == [Matrix |-> EmptyMap, Include |-> <<>>, Exclude |-> <<>>]

\* A value of the Go type []string, which yaml's Decode never stores in an
\* `any` but a program may.
AnyStrings(items) == [type |-> "[]string", items |-> items]

\* The include (or exclude) part of UnmarshalYAML: the field after it and
\* the error.  The slice is made at the length of the sequence before its
\* items are looked at, so that an item that is not a mapping leaves the
\* items before it set and the others nil.
UnexpandedEntries(matrix, key, field) ==
    IF key \notin DOMAIN matrix
    THEN [list |-> field, err |-> Nil]
    ELSE IF matrix[key].type # "[]any"
    THEN [list |-> field, err |-> "invalid matrix." \o key]
    ELSE LET tmp == matrix[key].items
             bad == {i \in DOMAIN tmp : tmp[i].type # "map[string]any"}
             stop == IF bad = {} THEN Len(tmp) + 1
                     ELSE CHOOSE i \in bad : \A j \in bad : i <= j
         IN  [list |-> [i \in DOMAIN tmp |->
                           IF i < stop THEN tmp[i].m ELSE EmptyMap],
              err |-> IF bad = {} THEN Nil ELSE "invalid matrix." \o key]

\* Variant that leaves include and exclude among the axes.
UnexpandedAxesKept(matrix) == matrix

\* delete(matrix, "include") and delete(matrix, "exclude")
UnexpandedAxes(matrix) == Delete(Delete(matrix, "include"), "exclude")

\* (m *Matrix) UnmarshalYAML(n): the receiver after the call and the error.
UnexpandedMatrixUnmarshalYAML(recv, node) ==
    IF node.Kind # MappingNode
    THEN [m |-> recv, err |-> "invalid matrix"]
    ELSE LET matrix == Decode(node)
             inc == UnexpandedEntries(matrix, "include", recv.Include)
             exc == UnexpandedEntries(matrix, "exclude", recv.Exclude)
             axes == UnexpandedAxes(matrix)
         IN  IF inc.err # Nil
             THEN [m |-> [recv EXCEPT !.Include = inc.list], err |-> inc.err]
             ELSE IF exc.err # Nil
             THEN [m |-> [recv EXCEPT !.Include = inc.list, !.Exclude = exc.list],
                   err |-> exc.err]
             ELSE [m |-> [Matrix |-> IF Cardinality(DOMAIN axes) # 0
                                     THEN axes ELSE recv.Matrix,
                          Include |-> inc.list,
                          Exclude |-> exc.list],
                   err |-> Nil]

\* What n.Encode makes of an `any`, as Decode would store it: a []string is
\* written as a sequence of strings, a slice and a map item by item.
RECURSIVE EncodeAny(_)
EncodeAny(v) ==
    CASE v.type = "[]string" ->
             AnyList([i \in DOMAIN v.items |-> AnyString(v.items[i])])
      [] v.type = "[]any" ->
             AnyList([i \in DOMAIN v.items |-> EncodeAny(v.items[i])])
      [] v.type = "map[string]any" ->
             AnyMap([k \in DOMAIN v.m |-> EncodeAny(v.m[k])])
      [] OTHER -> v

\* The encoding of a []map[string]any.
EncodeEntries(list) ==
    AnyList([i \in DOMAIN list |->
                AnyMap([k \in DOMAIN list[i] |-> EncodeAny(list[i][k])])])

\* The keys a matrix is given in the model, sorted as n.Encode sorts the
\* keys of a map.
MatrixKeysSorted == <<"animal", "exclude", "fruit", "include", "shape">>

\* (m Matrix) MarshalYAML(): the node and the error.  include and exclude
\* are stored in the copy of the axes under their keys when they have
\* entries, over what the axes hold there.
UnexpandedMatrixMarshalYAML(recv) ==
    LET keys == DOMAIN recv.Matrix
                \cup (IF Len(recv.Include) # 0 THEN {"include"} ELSE {})
                \cup (IF Len(recv.Exclude) # 0 THEN {"exclude"} ELSE {})
        matrix == [k \in keys |->
                      IF k = "exclude" /\ Len(recv.Exclude) # 0
                      THEN EncodeEntries(recv.Exclude)
                      ELSE IF k = "include" /\ Len(recv.Include) # 0
                      THEN EncodeEntries(recv.Include)
                      ELSE EncodeAny(recv.Matrix[k])]
        order == SelectSeq(MatrixKeysSorted, LAMBDA k : k \in keys)
    IN  [n |-> MatrixMapping([i \in DOMAIN order |->
                                 Pair(order[i], matrix[order[i]])]),
         err |-> Nil]

\* The entries of the include and exclude lists of the values and nodes.
UnexpandedEntryChoices ==
    {Map1("animal", AnyString("cat")), Map1("shape", AnyInt("1"))}

\* What an axis of a Matrix value holds.
UnexpandedAxisChoices ==
    {AnyList(<<AnyString("cat"), AnyString("dog")>>),
     AnyString("${{ x }}"),
     AnyStrings(<<"cat">>),
     AnyList(<<AnyMap(Map1("animal", AnyString("dog")))>>)}

\* The Matrix values that are encoded: the axes may hold any key, include
\* among them.
UnexpandedMatrixValues ==
    [Matrix : UNION {[K -> UnexpandedAxisChoices] : K \in SUBSET {"animal", "include"}},
     Include : SeqsUpTo(UnexpandedEntryChoices, MaxInclude),
     Exclude : SeqsUpTo(UnexpandedEntryChoices, MaxExclude)]

\* The include (or exclude) key with a mapping and then a scalar.
HalfBadEntries(key) ==
    <<Pair(key, AnyList(<<AnyMap(Map1("animal", AnyString("cat"))),
                          AnyString("all")>>))>>

\* The nodes an unexpanded matrix is decoded from.
UnexpandedMatrixNodes ==
    {MatrixMapping(a \o i \o x) :
        a \in SomeAxes \cup {<<Pair("animal", AnyString("${{ x }}"))>>},
        i \in EntriesChoices("include", UnexpandedEntryChoices, MaxInclude)
              \cup BadEntriesChoices("include") \cup {HalfBadEntries("include")},
        x \in EntriesChoices("exclude", UnexpandedEntryChoices, MaxExclude)
              \cup BadEntriesChoices("exclude") \cup {HalfBadEntries("exclude")}}
    \cup {[Kind |-> ScalarNode, Value |-> <<"4", "2">>, Content |-> <<>>]}

InitUnexpanded ==
    /\ \/ pc = "decode" /\ n \in UnexpandedMatrixNodes /\ m = UnexpandedMatrix
       \/ pc = "encode" /\ n = Null /\ m \in UnexpandedMatrixValues
    /\ u = Null /\ m2 = Null /\ p = Null /\ out = Null
    /\ err = Nil /\ err2 = Nil
    /\ concurrency = Null /\ environment = Null /\ workflow = Null
    /\ manifest = Null /\ back = Null /\ needs = Null

\* yaml decodes the node into the zero Matrix.
DecodeUnexpanded ==
    /\ pc = "decode"
    /\ LET r == UnexpandedMatrixUnmarshalYAML(m, n)
       IN  m' = r.m /\ err' = r.err
    /\ pc' = "decoded"
    /\ UNCHANGED <<n, u, m2, p, out, err2, concurrency, environment, workflow,
                   manifest, back, needs>>

\* yaml encodes the Matrix.
EncodeUnexpanded ==
    /\ pc = "encode"
    /\ LET r == UnexpandedMatrixMarshalYAML(m)
       IN  out' = r.n /\ err' = r.err
    /\ pc' = "encoded"
    /\ UNCHANGED <<n, u, m, m2, p, err2, concurrency, environment, workflow,
                   manifest, back, needs>>

\* yaml decodes the encoding into a zero Matrix.
RedecodeUnexpanded ==
    /\ pc = "encoded" /\ err = Nil
    /\ LET r == UnexpandedMatrixUnmarshalYAML(UnexpandedMatrix, out)
       IN  back' = r.m /\ err2' = r.err
    /\ pc' = "redecoded"
    /\ UNCHANGED <<n, u, m, m2, p, out, err, concurrency, environment,
                   workflow, manifest, needs>>

NextUnexpanded == DecodeUnexpanded \/ EncodeUnexpanded \/ RedecodeUnexpanded

SpecUnexpanded == InitUnexpanded /\ [][NextUnexpanded]_vars

\* What decode makes of the node n: include and exclude in their fields, the
\* other keys in the axes.
DecodeSplits ==
    (pc = "decoded" /\ err = Nil)
    => /\ m.Include = (IF Listed(n, "include")
                       THEN [i \in DOMAIN ValueOf(n, "include").items |->
                                ValueOf(n, "include").items[i].m]
                       ELSE <<>>)
       /\ m.Exclude = (IF Listed(n, "exclude")
                       THEN [i \in DOMAIN ValueOf(n, "exclude").items |->
                                ValueOf(n, "exclude").items[i].m]
                       ELSE <<>>)
       /\ DOMAIN m.Matrix = DOMAIN Decode(n) \ {"include", "exclude"}
       /\ \A k \in DOMAIN m.Matrix : m.Matrix[k] = ValueOf(n, k)

RECURSIVE Decodable(_)
Decodable(v) ==
    CASE v.type = "[]string" -> FALSE
      [] v.type = "[]any" -> \A i \in DOMAIN v.items : Decodable(v.items[i])
      [] v.type = "map[string]any" -> \A k \in DOMAIN v.m : Decodable(v.m[k])
      [] OTHER -> TRUE

====
